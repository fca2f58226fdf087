----------------------- MODULE SyncPublication_proofs -----------------------
(***************************************************************************)
(* What applying a plan does to the work of others, for any plan, any      *)
(* edits and commits meanwhile, and any number of kills.                   *)
(*                                                                         *)
(* An edit that does not fall between the check of a file and its write    *)
(* stays in the working tree, but for one file: the build file, while it   *)
(* is written and after a kill left it torn.  Then the edit is at HEAD,    *)
(* because the checkout was clean when the tool started to write, and the  *)
(* build file had still its reviewed content when its turn came.           *)
(***************************************************************************)
EXTENDS SyncPublication, TLAPS

TypeInv == SyncTypeOK /\ \A f \in Files : saved.before[f] \subseteq Hunks(f)

\* Those edits of f that nobody made while f was written.
Unraced(f) == {e \in Edits : <<f, e>> \in edits \ raced}

\* A plan is of a build file that is whole, and of files without edits.
PlanIsSound ==
  /\ "project" \in saved.before[build]
  /\ \A f \in Files \ {build} : saved.before[f] \subseteq {"template"}

WritesBuild == pc = "write" /\ Here = build

\* Since the plan was checked again, the build file has what was reviewed.
ReviewedIsThere ==
  pc \in {"status", "file", "create", "truncate", "write"} =>
    IF WritesBuild THEN "project" \notin file[build]
    ELSE "project" \in file[build] /\ saved.before[build] \cap Edits \subseteq file[build]

\* Since the checkout was found clean, HEAD has it too.
ReviewedIsCommitted ==
  /\ "project" \in committed[build]
  /\ pc \in {"file", "create", "truncate", "write"} =>
       saved.before[build] \cap Edits \subseteq committed[build]

\* What is about to be overwritten, or just was, had been reviewed.
OverwritesReviewed ==
  pc \in {"truncate", "write"} => Unraced(Here) \subseteq saved.before[Here]

\* Where the edits are.
EditsAreThere ==
  /\ \A f \in Files \ {build} : Unraced(f) \subseteq file[f]
  /\ Unraced(build) \subseteq IF "project" \in file[build] THEN file[build]
                                                           ELSE committed[build]

SyncInv ==
  /\ PlanIsSound
  /\ ReviewedIsThere
  /\ ReviewedIsCommitted
  /\ OverwritesReviewed
  /\ EditsAreThere

-----------------------------------------------------------------------------
\* Typing.

\* The plan says what file is next.
LEMMA HereIsFile == ASSUME SyncTypeOK PROVE Here \in Files
<1>1. DOMAIN Order = 1..Len(Order)
  BY OrderAssumption
<1>2. next \in DOMAIN Order
  BY <1>1 DEF SyncTypeOK
<1>3. QED  BY <1>2 DEF Here, Files

LEMMA AdvanceTyped ==
  ASSUME SyncTypeOK, Advance
  PROVE  pc' \in {"file", "idle"} /\ next' \in 1..Len(Order)
<1>1. Len(Order) \in Nat
  BY OrderAssumption
<1>2. next \in 1..Len(Order)
  BY DEF SyncTypeOK
<1>3. QED  BY <1>1, <1>2 DEF Advance

\* One file gets other content.
LEMMA FileTyped ==
  ASSUME TypeInv, NEW f \in Files, NEW c, c \subseteq Hunks(f), file' = [file EXCEPT ![f] = c]
  PROVE  /\ file' \in [Files -> SUBSET UNION {Hunks(g) : g \in Files}]
         /\ \A g \in Files : file'[g] \subseteq Hunks(g)
         /\ file'[f] = c
         /\ \A g \in Files \ {f} : file'[g] = file[g]
<1>1. file \in [Files -> SUBSET UNION {Hunks(g) : g \in Files}]
  BY DEF TypeInv, SyncTypeOK
<1>2. \A g \in Files : file[g] \subseteq Hunks(g)
  BY DEF TypeInv, SyncTypeOK
<1>3. c \in SUBSET UNION {Hunks(g) : g \in Files}
  OBVIOUS
<1>4. QED  BY <1>1, <1>2, <1>3

\* What a plan proposes for a file is a content of that file.
LEMMA ReviewedTyped == ASSUME TypeInv PROVE Reviewed \subseteq Hunks(Here)
<1>1. saved.before[Here] \subseteq Hunks(Here)
  BY HereIsFile DEF TypeInv
<1>2. QED  BY <1>1 DEF Reviewed, After, Hunks

LEMMA TypeInvInit == Init => TypeInv
<1> SUFFICES ASSUME Init PROVE TypeInv
  OBVIOUS
<1>1. file = [f \in Files |-> IF f = build THEN {"project"} ELSE Absent]
  BY DEF Init
<1>2. \A f \in Files : file[f] \subseteq Hunks(f)
  BY <1>1 DEF Hunks, Absent
<1>3. file \in [Files -> SUBSET UNION {Hunks(f) : f \in Files}]
  BY <1>1, <1>2
<1>4. committed = file
  BY DEF Init
<1>5. saved.before = [f \in Files |-> Text(file[f])]
  BY DEF Init, Planned
<1>6. \A f \in Files : saved.before[f] \subseteq Hunks(f)
  BY <1>2, <1>5 DEF Text, Empty
<1>7. next \in 1..Len(Order)
  BY OrderAssumption DEF Init
<1>8. crashes \in 0..MaxCrashes
  BY CrashesAssumption DEF Init
<1>9. QED
  BY <1>2, <1>3, <1>4, <1>5, <1>6, <1>7, <1>8 DEF Init, TypeInv, SyncTypeOK

LEMMA TypeInvNext == TypeInv /\ [Next]_vars => TypeInv'
<1> SUFFICES ASSUME TypeInv, [Next]_vars PROVE TypeInv'
  OBVIOUS
<1>1. SyncTypeOK /\ Here \in Files
  BY HereIsFile DEF TypeInv
<1>2. CASE Plan
  <2>1. saved'.before = [f \in Files |-> Text(file[f])]
    BY <1>2 DEF Plan, Planned
  <2>2. \A f \in Files : saved'.before[f] \subseteq Hunks(f)
    BY <1>1, <2>1 DEF SyncTypeOK, Text, Empty
  <2>3. UNCHANGED <<file, committed, pc, next, crashes, edits, raced>>
    BY <1>2 DEF Plan
  <2>4. QED  BY <1>1, <2>1, <2>2, <2>3 DEF TypeInv, SyncTypeOK
<1>3. CASE StartApply \/ Recheck
  BY <1>3 DEF StartApply, Recheck, TypeInv, SyncTypeOK
<1>4. CASE Status
  <2>1. next' \in 1..Len(Order)
    BY <1>4, OrderAssumption DEF Status
  <2>2. QED  BY <1>4, <2>1 DEF Status, TypeInv, SyncTypeOK
<1>5. CASE Skip
  BY <1>1, <1>5, AdvanceTyped DEF Skip, TypeInv, SyncTypeOK
<1>6. CASE Look
  BY <1>6 DEF Look, TypeInv, SyncTypeOK
<1>7. ASSUME NEW f \in Files, NEW c, c \subseteq Hunks(f), file' = [file EXCEPT ![f] = c],
             UNCHANGED <<committed, saved>>,
             pc' \in {"idle", "file", "write", pc}, next' \in 1..Len(Order),
             crashes' \in 0..MaxCrashes, edits' \subseteq Files \X Edits, raced' \subseteq edits'
      PROVE  TypeInv'
  BY <1>1, <1>7, FileTyped DEF TypeInv, SyncTypeOK
<1>8. Empty \subseteq Hunks(Here) /\ Partial \subseteq Hunks(Here)
  BY DEF Empty, Partial, Hunks
<1>9. CASE Create
  <2>1. CASE UNCHANGED file
    BY <1>9, <2>1 DEF Create, TypeInv, SyncTypeOK
  <2>2. CASE file' = [file EXCEPT ![Here] = Empty]
    BY <1>1, <1>7, <1>8, <1>9, <2>2 DEF Create, SyncTypeOK
  <2>3. QED  BY <1>9, <2>1, <2>2 DEF Create
<1>10. CASE Truncate
  BY <1>1, <1>7, <1>8, <1>10 DEF Truncate, SyncTypeOK
<1>11. CASE Write
  BY <1>1, <1>7, <1>11, AdvanceTyped, ReviewedTyped DEF Write, SyncTypeOK
<1>12. CASE Crash
  <2>1. crashes' \in 0..MaxCrashes
    BY <1>1, <1>12, CrashesAssumption DEF Crash, SyncTypeOK
  <2>2. CASE UNCHANGED file
    BY <1>12, <2>1, <2>2 DEF Crash, TypeInv, SyncTypeOK
  <2>3. CASE file' = [file EXCEPT ![Here] = Partial]
    BY <1>1, <1>7, <1>8, <1>12, <2>1, <2>3 DEF Crash, SyncTypeOK
  <2>4. QED  BY <1>12, <2>2, <2>3 DEF Crash
<1>13. ASSUME NEW f \in Files, NEW e \in Edits, Edit(f, e) PROVE TypeInv'
  <2>1. Text(file[f]) \cup {e} \subseteq Hunks(f)
    BY <1>1 DEF SyncTypeOK, Text, Empty, Hunks
  <2>2. file' = [file EXCEPT ![f] = Text(file[f]) \cup {e}]
    BY <1>1, <1>13 DEF Edit, SyncTypeOK
  <2>3. edits' \subseteq Files \X Edits /\ raced' \subseteq edits'
    BY <1>1, <1>13 DEF Edit, SyncTypeOK
  <2>4. QED  BY <1>1, <1>7, <1>13, <2>1, <2>2, <2>3 DEF Edit, SyncTypeOK
<1>14. CASE Commit
  BY <1>14 DEF Commit, TypeInv, SyncTypeOK
<1>15. ASSUME NEW f \in Files, Restore(f) PROVE TypeInv'
  BY <1>1, <1>7, <1>15 DEF Restore, SyncTypeOK
<1>16. CASE UNCHANGED vars
  BY <1>16 DEF vars, TypeInv, SyncTypeOK
<1>17. QED
  BY <1>2, <1>3, <1>4, <1>5, <1>6, <1>9, <1>10, <1>11, <1>12, <1>13, <1>14, <1>15, <1>16
     DEF Next, Tool

\* Files, the plan and the tool hold what their types say; the build file never
\* gets the template's text in place of its own, nor another file its fragment
\* (sync_android_publication.py:178-242).
THEOREM SyncTypeCorrect == Spec => []SyncTypeOK
<1>1. TypeInv => SyncTypeOK
  BY DEF TypeInv
<1>2. QED  BY <1>1, TypeInvInit, TypeInvNext, PTL DEF Spec
-----------------------------------------------------------------------------
\* The edits of others.

LEMMA Apart ==
  /\ Edits \cap Absent = {} /\ Edits \cap Partial = {} /\ Edits \cap {"template"} = {}
  /\ "project" \notin Edits
BY EditsAssumption DEF Absent, Partial

\* Reading a file that does not exist as empty loses no edit.
LEMMA TextKeeps ==
  ASSUME NEW c
  PROVE  /\ Text(c) \cap Edits = c \cap Edits
         /\ "project" \in Text(c) <=> "project" \in c
BY Apart DEF Text, Absent, Empty

\* Nothing that is not the build file is overwritten if it has edits.
LEMMA NothingThere ==
  ASSUME PlanIsSound, OverwritesReviewed, pc \in {"truncate", "write"}, Here \in Files, Here # build
  PROVE  Unraced(Here) = {}
BY Apart DEF PlanIsSound, OverwritesReviewed, Unraced

LEMMA SyncInvInit == Init => SyncInv
<1> SUFFICES ASSUME Init PROVE SyncInv
  OBVIOUS
<1>1. file = [f \in Files |-> IF f = build THEN {"project"} ELSE Absent]
  BY DEF Init
<1>2. committed = file /\ saved = Planned /\ pc = "idle" /\ edits = {}
  BY DEF Init
<1>3. file[build] = {"project"} /\ \A f \in Files \ {build} : file[f] = Absent
  BY <1>1, BuildAssumption
<1>4. saved.before = [f \in Files |-> Text(file[f])]
  BY <1>2 DEF Planned
<1>5. PlanIsSound
  BY <1>3, <1>4, BuildAssumption DEF PlanIsSound, Text, Absent, Empty
<1>6. \A f \in Files : Unraced(f) = {}
  BY <1>2 DEF Unraced
<1>7. QED
  BY <1>2, <1>3, <1>5, <1>6, BuildAssumption
     DEF SyncInv, ReviewedIsThere, ReviewedIsCommitted, OverwritesReviewed, EditsAreThere

\* Until a file is written: a plan is made, and checked again.
LEMMA CheckKeeps ==
  ASSUME TypeInv, SyncInv, Plan \/ StartApply \/ Recheck \/ Status \/ Skip
  PROVE  SyncInv'
<1> USE DEF SyncInv
<1>1. UNCHANGED <<file, edits, raced>> /\ UNCHANGED committed
  BY DEF Plan, StartApply, Recheck, Status, Skip
<1>2. \A f \in Files : Unraced(f)' = Unraced(f)
  BY <1>1 DEF Unraced
<1>3. EditsAreThere'
  BY <1>1, <1>2, BuildAssumption DEF EditsAreThere
<1>4. Plannable => "project" \in Planned.before[build] /\ Planned.before[build] = file[build]
  BY BuildAssumption DEF Plannable, Planned, Text, Absent, Empty
<1>5. CASE Plan
  <2>1. saved' = Planned /\ Plannable /\ pc' = "idle"
    BY <1>5 DEF Plan
  <2>2. \A f \in Files \ {build} : Planned.before[f] \subseteq {"template"}
    BY <2>1 DEF Plannable, Planned, Empty
  <2>3. QED
    BY <1>1, <1>3, <1>4, <2>1, <2>2
       DEF PlanIsSound, ReviewedIsThere, ReviewedIsCommitted, OverwritesReviewed
<1>6. CASE StartApply
  BY <1>1, <1>3, <1>6 DEF StartApply, PlanIsSound, ReviewedIsThere, ReviewedIsCommitted,
                          OverwritesReviewed
<1>7. CASE Recheck
  BY <1>1, <1>3, <1>4, <1>7
     DEF Recheck, PlanIsSound, ReviewedIsThere, ReviewedIsCommitted, OverwritesReviewed,
         WritesBuild
<1>8. CASE Status
  BY <1>1, <1>3, <1>8
     DEF Status, Clean, PlanIsSound, ReviewedIsThere, ReviewedIsCommitted,
         OverwritesReviewed, WritesBuild
<1>9. CASE Skip
  BY <1>1, <1>3, <1>9
     DEF Skip, Advance, PlanIsSound, ReviewedIsThere, ReviewedIsCommitted,
         OverwritesReviewed, WritesBuild
<1>10. QED  BY <1>5, <1>6, <1>7, <1>8, <1>9

\* A file that has what was reviewed may be overwritten.
LEMMA LookKeeps ==
  ASSUME TypeInv, SyncInv, Look
  PROVE  SyncInv'
<1> USE DEF SyncInv
<1>1. UNCHANGED <<file, committed, saved, next, crashes, edits, raced>>
      /\ pc = "file" /\ pc' \in {"create", "truncate", "idle"}
  BY DEF Look
<1>2. Here \in Files /\ Here' = Here
  BY <1>1, HereIsFile DEF TypeInv, Here
<1>3. Unraced(Here)' = Unraced(Here) /\ (\A f \in Files : Unraced(f)' = Unraced(f))
  BY <1>1, <1>2 DEF Unraced
<1>4. Unraced(Here) \subseteq file[Here]
  BY <1>1, <1>2 DEF EditsAreThere, ReviewedIsThere, WritesBuild
<1>5. pc' = "truncate" => file[Here] = saved.before[Here]
  BY DEF Look
<1>6. OverwritesReviewed'
  BY <1>1, <1>2, <1>3, <1>4, <1>5 DEF OverwritesReviewed
<1>7. EditsAreThere'
  BY <1>1, <1>3, BuildAssumption DEF EditsAreThere
<1>8. QED
  BY <1>1, <1>6, <1>7 DEF PlanIsSound, ReviewedIsThere, ReviewedIsCommitted, WritesBuild

\* The file at hand gets new content, and loses no edit that is not at HEAD.
LEMMA OverwriteKeeps ==
  ASSUME TypeInv, SyncInv, UNCHANGED <<committed, saved, edits, raced>>,
         NEW c, c \subseteq Hunks(Here), file' = [file EXCEPT ![Here] = c],
         Here = build => Unraced(build) \subseteq IF "project" \in c THEN c ELSE committed[build],
         Here # build => Unraced(Here) = {},
         pc' = "write" => Here' = Here /\ Unraced(Here) \subseteq saved.before[Here],
         pc' # "truncate",
         pc' # "idle" => pc \in {"file", "create", "truncate", "write"},
         pc' # "idle" /\ Here = build =>
           IF pc' = "write" THEN "project" \notin c
                            ELSE "project" \in c /\ saved.before[build] \cap Edits \subseteq c
  PROVE  SyncInv'
<1> USE DEF SyncInv
<1>1. Here \in Files /\ build \in Files
  BY HereIsFile, BuildAssumption DEF TypeInv
<1>2. file'[Here] = c /\ \A f \in Files \ {Here} : file'[f] = file[f]
  BY <1>1, FileTyped
<1>3. \A f \in Files : Unraced(f)' = Unraced(f)
  BY DEF Unraced
<1>4. PlanIsSound'
  BY DEF PlanIsSound
<1>5. ReviewedIsThere'
  <2>1. CASE pc' = "idle"
    BY <2>1 DEF ReviewedIsThere
  <2>2. CASE pc' # "idle" /\ Here = build
    BY <1>2, <2>2 DEF ReviewedIsThere, WritesBuild
  <2>3. CASE pc' # "idle" /\ Here # build
    <3>1. "project" \in file[build] /\ saved.before[build] \cap Edits \subseteq file[build]
      BY <2>3 DEF ReviewedIsThere, WritesBuild
    <3>2. ~WritesBuild'
      BY <2>3 DEF WritesBuild
    <3>3. QED  BY <1>1, <1>2, <2>3, <3>1, <3>2 DEF ReviewedIsThere
  <2>4. QED  BY <2>1, <2>2, <2>3
<1>6. ReviewedIsCommitted'
  BY DEF ReviewedIsCommitted
<1>7. OverwritesReviewed'
  <2>1. CASE pc' = "write"
    <3>1. Unraced(Here)' = Unraced(Here)
      BY <2>1 DEF Unraced
    <3>2. QED  BY <2>1, <3>1 DEF OverwritesReviewed
  <2>2. QED  BY <2>1 DEF OverwritesReviewed
<1>8. EditsAreThere'
  <2>1. \A f \in Files \ {build} : Unraced(f) \subseteq file'[f]
    BY <1>2 DEF EditsAreThere
  <2>2. Unraced(build) \subseteq IF "project" \in file'[build] THEN file'[build]
                                                               ELSE committed[build]
    BY <1>1, <1>2 DEF EditsAreThere
  <2>3. QED  BY <1>1, <1>3, <2>1, <2>2 DEF EditsAreThere
<1>9. QED  BY <1>4, <1>5, <1>6, <1>7, <1>8

\* A file is created, emptied and written.
LEMMA WritingKeeps ==
  ASSUME TypeInv, SyncInv, Create \/ Truncate \/ Write
  PROVE  SyncInv'
<1>1. Here \in Files
  BY HereIsFile DEF TypeInv
<1>2. Empty \subseteq Hunks(Here) /\ Reviewed \subseteq Hunks(Here)
  BY ReviewedTyped DEF Empty
<1>3. CASE Create
  <2>1. CASE UNCHANGED file
    <3>1. file[Here] # Absent \/ file' # [file EXCEPT ![Here] = Empty]
      BY <1>1, <2>1 DEF Absent, Empty, TypeInv, SyncTypeOK
    <3>2. UNCHANGED <<file, committed, saved, next, crashes, edits, raced>> /\ pc' = "idle"
      BY <1>3, <2>1, <3>1 DEF Create
    <3>3. \A f \in Files : Unraced(f)' = Unraced(f)
      BY <3>2 DEF Unraced
    <3>4. QED
      BY <3>2, <3>3, BuildAssumption
         DEF SyncInv, PlanIsSound, ReviewedIsThere, ReviewedIsCommitted, OverwritesReviewed,
             EditsAreThere
  <2>2. CASE file[Here] = Absent /\ file' = [file EXCEPT ![Here] = Empty] /\ pc' = "write"
    <3>1. pc = "create" /\ UNCHANGED <<committed, saved, next, crashes, edits, raced>>
      BY <1>3 DEF Create
    <3>2. Here # build
      BY <2>2, <3>1 DEF SyncInv, ReviewedIsThere, WritesBuild, Absent
    <3>3. Unraced(Here) = {}
      BY <1>1, <2>2, <3>2, Apart DEF SyncInv, EditsAreThere, Unraced
    <3>4. Here' = Here
      BY <3>1 DEF Here
    <3>5. QED  BY <1>2, <2>2, <3>1, <3>2, <3>3, <3>4, OverwriteKeeps
  <2>3. QED  BY <1>3, <2>1, <2>2 DEF Create
<1>4. CASE Truncate
  <2>1. pc = "truncate" /\ pc' = "write" /\ file' = [file EXCEPT ![Here] = Empty]
        /\ UNCHANGED <<committed, saved, next, crashes, edits, raced>>
    BY <1>4 DEF Truncate
  <2>2. Here' = Here
    BY <2>1 DEF Here
  <2>3. Unraced(Here) \subseteq saved.before[Here]
    BY <2>1 DEF SyncInv, OverwritesReviewed
  <2>4. Here # build => Unraced(Here) = {}
    BY <1>1, <2>1, NothingThere DEF SyncInv
  <2>5. Here = build => Unraced(build) \subseteq committed[build]
    BY <2>1, <2>3 DEF SyncInv, ReviewedIsCommitted, Unraced
  <2>6. "project" \notin Empty
    BY DEF Empty
  <2>7. QED  BY <1>2, <2>1, <2>2, <2>3, <2>4, <2>5, <2>6, OverwriteKeeps
<1>5. CASE Write
  <2>1. pc = "write" /\ pc' \in {"file", "idle"} /\ file' = [file EXCEPT ![Here] = Reviewed]
        /\ UNCHANGED <<committed, saved, crashes, edits, raced>>
    BY <1>5 DEF Write, Advance
  <2>2. Unraced(Here) \subseteq saved.before[Here]
    BY <2>1 DEF SyncInv, OverwritesReviewed
  <2>3. Here # build => Unraced(Here) = {}
    BY <1>1, <2>1, NothingThere DEF SyncInv
  <2>4. Here = build => "project" \in Reviewed /\ saved.before[build] \subseteq Reviewed
    BY DEF SyncInv, PlanIsSound, Reviewed, After
  <2>5. QED  BY <1>2, <2>1, <2>2, <2>3, <2>4, OverwriteKeeps
<1>6. QED  BY <1>3, <1>4, <1>5

\* A kill tears at most the file at hand.
LEMMA CrashKeeps ==
  ASSUME TypeInv, SyncInv, Crash
  PROVE  SyncInv'
<1>1. pc' = "idle" /\ UNCHANGED <<committed, saved, next, edits, raced>>
  BY DEF Crash
<1>2. CASE UNCHANGED file
  <2>1. \A f \in Files : Unraced(f)' = Unraced(f)
    BY <1>1 DEF Unraced
  <2>2. QED
    BY <1>1, <1>2, <2>1, BuildAssumption
       DEF SyncInv, PlanIsSound, ReviewedIsThere, ReviewedIsCommitted, OverwritesReviewed,
           EditsAreThere
<1>3. CASE pc = "write" /\ file' = [file EXCEPT ![Here] = Partial]
  <2>1. Here \in Files /\ Partial \subseteq Hunks(Here)
    BY HereIsFile DEF TypeInv, Partial, Hunks
  <2>2. Here # build => Unraced(Here) = {}
    BY <1>3, <2>1, NothingThere DEF SyncInv
  <2>3. Here = build => Unraced(build) \subseteq committed[build]
    BY <1>3 DEF SyncInv, OverwritesReviewed, ReviewedIsCommitted, Unraced
  <2>4. "project" \notin Partial
    BY DEF Partial
  <2>5. QED  BY <1>1, <1>3, <2>1, <2>2, <2>3, <2>4, OverwriteKeeps
<1>4. QED  BY <1>2, <1>3 DEF Crash

\* Somebody edits a file, in the window of its write or out of it.
LEMMA EditKeeps ==
  ASSUME TypeInv, SyncInv, NEW f \in Files, NEW e \in Edits, Edit(f, e)
  PROVE  SyncInv'
<1> USE DEF SyncInv
<1>1. UNCHANGED <<committed, saved, pc, next, crashes>> /\ Here' = Here
      /\ WritesBuild' = WritesBuild
  BY DEF Edit, Here, WritesBuild
<1>2. build \in Files /\ Here \in Files
  BY BuildAssumption, HereIsFile DEF TypeInv
<1>3. /\ file'[f] = Text(file[f]) \cup {e}
      /\ \A g \in Files \ {f} : file'[g] = file[g]
  BY DEF Edit, TypeInv, SyncTypeOK
<1>4. \A g \in Files : /\ file[g] \cap Edits \subseteq file'[g]
                       /\ "project" \in file'[g] <=> "project" \in file[g]
  BY <1>3, TextKeeps, Apart
<1>5. \A g \in Files \ {f} : Unraced(g)' = Unraced(g)
  BY DEF Edit, Unraced
<1>6. Racing(f) => Unraced(f)' \subseteq Unraced(f)
  BY DEF Edit, Unraced
<1>7. Unraced(f)' \subseteq Unraced(f) \cup {e}
  BY DEF Edit, Unraced
<1>8. ReviewedIsThere'
  BY <1>1, <1>2, <1>4 DEF ReviewedIsThere
<1>9. OverwritesReviewed'
  <2> SUFFICES ASSUME pc \in {"truncate", "write"}
               PROVE  Unraced(Here)' \subseteq saved.before[Here]
    BY <1>1 DEF OverwritesReviewed, Unraced
  <2> DEFINE h == Here
  <2>1. Unraced(Here)' = {x \in Edits : <<h, x>> \in edits' \ raced'}
    BY <1>1 DEF Unraced
  <2>2. Unraced(h) \subseteq saved.before[h]
    BY DEF OverwritesReviewed
  <2>3. {x \in Edits : <<h, x>> \in edits' \ raced'} \subseteq Unraced(h)
    <3>1. CASE f = h
      BY <1>6, <3>1 DEF Racing, Unraced
    <3>2. CASE f # h
      BY <3>2 DEF Edit, Unraced
    <3>3. QED  BY <3>1, <3>2
  <2>4. QED  BY <2>1, <2>2, <2>3
<1>10. EditsAreThere'
  <2>1. ASSUME NEW g \in Files \ {build} PROVE Unraced(g)' \subseteq file'[g]
    <3>1. Unraced(g) \subseteq file[g] /\ Unraced(g) \subseteq Edits
      BY DEF EditsAreThere, Unraced
    <3>2. CASE g = f
      BY <1>3, <1>4, <1>7, <3>1, <3>2
    <3>3. CASE g # f
      BY <1>3, <1>5, <3>1, <3>3
    <3>4. QED  BY <3>2, <3>3
  <2>2. Unraced(build) \subseteq Edits
    BY DEF Unraced
  <2>3. Unraced(build)' \subseteq IF "project" \in file'[build] THEN file'[build]
                                                                ELSE committed[build]
    <3>1. CASE f # build
      BY <1>2, <1>3, <1>5, <3>1 DEF EditsAreThere
    <3>2. CASE f = build /\ Racing(f)
      BY <1>2, <1>4, <1>6, <2>2, <3>2 DEF EditsAreThere
    <3>3. CASE f = build /\ ~Racing(f)
      <4>1. "project" \in file[build]
        BY <3>3 DEF Edit, Torn
      <4>2. QED  BY <1>2, <1>3, <1>4, <1>7, <2>2, <3>3, <4>1 DEF EditsAreThere
    <3>4. QED  BY <3>1, <3>2, <3>3
  <2>4. QED  BY <1>1, <2>1, <2>3 DEF EditsAreThere
<1>11. QED
  BY <1>1, <1>8, <1>9, <1>10 DEF PlanIsSound, ReviewedIsCommitted

\* Nobody commits a build file that is being written.
LEMMA CommitKeeps ==
  ASSUME TypeInv, SyncInv, Commit
  PROVE  SyncInv'
<1> USE DEF SyncInv
<1>1. committed' = file /\ UNCHANGED <<file, saved, pc, next, crashes, edits, raced>>
      /\ Here' = Here /\ WritesBuild' = WritesBuild
  BY DEF Commit, Here, WritesBuild
<1>2. "project" \in file[build]
  BY BuildAssumption DEF Commit, Torn
<1>3. Unraced(Here)' = Unraced(Here) /\ (\A f \in Files : Unraced(f)' = Unraced(f))
  BY <1>1 DEF Unraced
<1>4. ReviewedIsCommitted'
  BY <1>1, <1>2 DEF ReviewedIsThere, ReviewedIsCommitted
<1>5. EditsAreThere'
  BY <1>1, <1>2, <1>3, BuildAssumption DEF EditsAreThere
<1>6. QED
  BY <1>1, <1>3, <1>4, <1>5 DEF PlanIsSound, ReviewedIsThere, OverwritesReviewed

\* A torn file has no edits but those at HEAD.
LEMMA RestoreKeeps ==
  ASSUME TypeInv, SyncInv, NEW f \in Files, Restore(f)
  PROVE  SyncInv'
<1> USE DEF SyncInv
<1>1. pc' = "idle" /\ UNCHANGED <<committed, saved, pc, next, crashes, edits, raced>>
  BY DEF Restore
<1>2. /\ file'[f] = committed[f]
      /\ \A g \in Files \ {f} : file'[g] = file[g]
  BY DEF Restore, TypeInv, SyncTypeOK
<1>3. \A g \in Files : Unraced(g)' = Unraced(g)
  BY <1>1 DEF Unraced
<1>4. f = build => "project" \notin file[build]
  BY DEF Restore, Torn, Text, Empty, Partial
<1>5. f # build => Unraced(f) = {}
  BY Apart DEF Restore, Torn, Text, Empty, EditsAreThere, Unraced
<1>6. EditsAreThere'
  BY <1>1, <1>2, <1>3, <1>4, <1>5, BuildAssumption DEF EditsAreThere, ReviewedIsCommitted
<1>7. QED
  BY <1>1, <1>6 DEF PlanIsSound, ReviewedIsThere, ReviewedIsCommitted, OverwritesReviewed

LEMMA SyncInvNext == TypeInv /\ SyncInv /\ [Next]_vars => SyncInv'
<1> SUFFICES ASSUME TypeInv, SyncInv, [Next]_vars PROVE SyncInv'
  OBVIOUS
<1>1. CASE UNCHANGED vars
  <2>1. UNCHANGED <<file, committed, saved, pc, next, crashes, edits, raced>>
    BY <1>1 DEF vars
  <2>2. Here' = Here /\ Unraced(Here)' = Unraced(Here)
        /\ (\A f \in Files : Unraced(f)' = Unraced(f))
    BY <2>1 DEF Here, Unraced
  <2>3. QED
    BY <2>1, <2>2, BuildAssumption
       DEF SyncInv, PlanIsSound, ReviewedIsThere, ReviewedIsCommitted, OverwritesReviewed,
           EditsAreThere, WritesBuild
<1>2. CASE Next
  BY <1>2, CheckKeeps, LookKeeps, WritingKeeps, CrashKeeps, EditKeeps, CommitKeeps,
     RestoreKeeps DEF Next, Tool
<1>3. QED  BY <1>1, <1>2

\* What people edit while a plan is applied is in the working tree or at HEAD,
\* however often the tool is killed, unless it falls between the check of that
\* very file and its write (sync_android_publication.py:222-242).
THEOREM EditsCorrect == Spec => []EditsKept
<1>1. TypeInv /\ SyncInv => EditsKept
  <2> SUFFICES ASSUME TypeInv, SyncInv, NEW p \in edits \ raced
               PROVE  Kept(p[1], p[2])
    BY DEF EditsKept
  <2>1. p[1] \in Files /\ p[2] \in Edits /\ p = <<p[1], p[2]>>
    BY DEF TypeInv, SyncTypeOK
  <2>2. p[2] \in Unraced(p[1])
    BY <2>1 DEF Unraced
  <2>3. QED  BY <2>1, <2>2 DEF SyncInv, EditsAreThere, Kept
<1>2. QED  BY <1>1, TypeInvInit, TypeInvNext, SyncInvInit, SyncInvNext, PTL DEF Spec
=============================================================================
