-------------------------- MODULE StagedPublication --------------------------
(***************************************************************************)
(* The checks between publishing and uploading, in a project that has      *)
(* android-publication.gradle.kts.fragment: Gradle stages the root and the *)
(* Android publication; verify_publication_pins.py reads the staged files  *)
(* one by one, and fingerprints them once more at the end;                 *)
(* centralPortalBundle packs what is staged by then; verify_android_       *)
(* publication.py checks a ZIP of its own, packed from the same directory; *)
(* publishToCentralPortal uploads.  Another invocation of Gradle in the    *)
(* same checkout may stage files meanwhile.                                *)
(*                                                                         *)
(* A content stands for its fingerprint.  A publication is a function from *)
(* Files to contents; `none` is a file that does not exist.                *)
(***************************************************************************)
EXTENDS Naturals, FiniteSets, Sequences

CONSTANTS
  Deps,          \* the declared dependencies
  Api,           \* those that public signatures use: the reviewed API edges
  Versions,      \* versions that a dependency can be declared with
  Selectors,     \* those that are not exact: ranges, latest.release
  Artifacts,     \* names of artifacts in POMs; a dependency's own is one
  Requests,      \* what the two checks may be asked for
  Published,     \* what a publish task may write: the files of its publication
  none,
  MaxWrong,      \* bound: files of one run that are not as they should be
  MaxForeign     \* bound: files another invocation writes during a run

ASSUME PublicationAssumption ==
  Api \subseteq Deps /\ Deps \subseteq Artifacts /\ Selectors \subseteq Versions

VARIABLES
  asked,     \* the arguments: expected[d], pomName[d] and, of API edges, apiName[d]
  staged,    \* staging-deploy
  written,   \* the files this run has staged
  at,        \* the next step of verify_publication_pins; 0 before it starts
  seen,      \* what it has read
  receipt,   \* the fingerprints in its receipt
  zip,       \* android-publication.zip, once packed
  payload,   \* the receipt of verify_android_publication: its aar_sha256
  bundle,    \* the bundle of centralPortalBundle
  build,     \* how this run of Gradle stands
  foreign    \* history: files written by others since this run began

stagingVars ==
  <<asked, staged, written, at, seen, receipt, zip, payload, bundle, build, foreign>>

Files == {"root_module", "root_pom", "android_module", "android_pom", "aar"}

ASSUME PublishedAssumption == \A published \in Published : DOMAIN published \subseteq Files

Usages == {"java-api", "java-runtime"}

Nothing == [f \in Files |-> none]

\* The files in the order in which they are read: the AAR for each variant.
Reads == <<"root_module", "android_module", "aar", "aar", "root_pom", "android_pom">>

Prints == <<"root_module", "root_pom", "android_module", "android_pom">>

-----------------------------------------------------------------------------
\* verify_publication_pins.

\* The arguments: exact versions, and one dependency for each artifact.
Declarable ==
  /\ \A d \in Deps : asked.expected[d] \notin Selectors
  /\ \A d, e \in Deps : asked.pomName[d] = asked.pomName[e] => d = e

\* Mutant: a dependency that is missing is never missed.
OnlyRightPins(edges, required) ==
  \A d \in Deps : edges[d] \in {<<>>, <<asked.expected[d]>>}

\* Edges are the versions a dependency is listed with. None but the declared
\* one, none twice, and if required the dependency itself.
Pinned(edges, required) ==
  \A d \in Deps :
    /\ edges[d] \in {<<>>, <<asked.expected[d]>>}
    /\ required => edges[d] # <<>>

\* Mutant: the Android POM is searched for the root modules.
PomByRootModule(file, d) == d

\* The artifact a POM names a dependency by.
PomArtifact(file, d) == IF file = "android_pom" THEN asked.pomName[d] ELSE d

\* What is required of one file, given those read before.
Good(file, read) ==
  LET c == read[file] IN
    /\ file = "root_module" =>
         c.owner /\ c.redirects = Usages /\ Pinned(c.common, TRUE)
    /\ file = "android_module" =>
         /\ c.owner /\ c.rootUrl /\ DOMAIN c.variants = Usages
         /\ \A u \in Usages : Pinned(c.variants[u], u = "java-runtime")
    /\ file = "aar" => c = read["android_module"].aar
    /\ file \in {"root_pom", "android_pom"} =>
         c.owner /\ Pinned([d \in Deps |-> c.pins[PomArtifact(file, d)]], TRUE)

Running == build = "running"

Fail ==
  /\ build' = "failed"
  /\ UNCHANGED <<at, seen, receipt, payload>>

\* verifyPublicationPins depends on both publications.
PinsStart ==
  /\ Running /\ written = Files /\ at = 0
  /\ IF Declarable /\ \A f \in Files \ {"aar"} : staged[f] # none
     THEN at' = 1 /\ UNCHANGED <<seen, receipt, payload, build>>
     ELSE Fail
  /\ UNCHANGED <<asked, staged, written, zip, bundle, foreign>>

PinsRead ==
  /\ Running /\ at \in DOMAIN Reads
  /\ LET f    == Reads[at]
         read == [seen EXCEPT ![f] = staged[f]]
     IN  IF read[f] # none /\ Good(f, read)
         THEN at' = at + 1 /\ seen' = read /\ UNCHANGED <<receipt, payload, build>>
         ELSE Fail
  /\ UNCHANGED <<asked, staged, written, zip, bundle, foreign>>

\* fingerprint(path), which reads the file again.
PinsPrint ==
  /\ Running /\ at - Len(Reads) \in DOMAIN Prints
  /\ LET f == Prints[at - Len(Reads)] IN
       IF staged[f] # none
       THEN /\ at' = at + 1
            /\ receipt' = [receipt EXCEPT ![f] = staged[f]]
            /\ UNCHANGED <<seen, payload, build>>
       ELSE Fail
  /\ UNCHANGED <<asked, staged, written, zip, bundle, foreign>>

PinsPassed == at > Len(Reads) + Len(Prints)

-----------------------------------------------------------------------------
\* verify_android_publication.

\* The ZIP has the Android publication of this version, found from the root,
\* with the API edges, under their own names in the POM, and the classes that
\* were asked for.
AndroidVerified(p) ==
  /\ \A f \in Files \ {"root_pom"} : p[f] # none
  /\ p["root_module"].owner /\ p["root_module"].redirects = Usages
  /\ p["android_module"].owner /\ p["android_module"].rootUrl
  /\ DOMAIN p["android_module"].variants = Usages
  /\ p["android_module"].aar = p["aar"]
  /\ \A u \in Usages, d \in Api : p["android_module"].variants[u][d] # <<>>
  /\ p["android_pom"].owner
  /\ \A d \in Api : asked.apiName[d] \in p["android_pom"].compile
  /\ p["aar"].classes

VerifyAndroid ==
  /\ Running /\ zip # Nothing /\ payload = none
  /\ IF AndroidVerified(zip)
     THEN payload' = zip["aar"] /\ UNCHANGED <<at, seen, receipt, build>>
     ELSE Fail
  /\ UNCHANGED <<asked, staged, written, zip, bundle, foreign>>

-----------------------------------------------------------------------------
\* The tasks around the checks.

\* What every consumer of a publication is to find there: Gradle's common
\* metadata, the Android variants reached through the root, and both POMs, in
\* the versions that were declared, and the Android library with its classes.
\* Nothing compares the names that the two checks were given.
RightFile(f, c, aar) ==
  /\ c # none
  /\ f = "root_module" =>
       c.owner /\ c.redirects = Usages /\ \A d \in Deps : c.common[d] = <<asked.expected[d]>>
  /\ f = "android_module" =>
       /\ c.owner /\ c.rootUrl /\ c.aar = aar /\ DOMAIN c.variants = Usages
       /\ \A d \in Deps : /\ c.variants["java-runtime"][d] = <<asked.expected[d]>>
                          /\ c.variants["java-api"][d] \in {<<>>, <<asked.expected[d]>>}
       /\ \A d \in Api : c.variants["java-api"][d] # <<>>
  /\ f = "aar" => c.classes
  /\ f = "root_pom" => c.owner /\ \A d \in Deps : c.pins[d] = <<asked.expected[d]>>
  /\ f = "android_pom" =>
       /\ c.owner /\ \A d \in Deps : c.pins[asked.pomName[d]] = <<asked.expected[d]>>
       /\ \A d \in Api : asked.apiName[d] \in c.compile

Right(p) == \A f \in Files : RightFile(f, p[f], p["aar"])

\* The next invocation, of whatever revision; what is staged stays.
NewRun ==
  /\ ~Running
  /\ written' = {} /\ at' = 0 /\ seen' = Nothing /\ receipt' = Nothing
  /\ zip' = Nothing /\ payload' = none /\ bundle' = Nothing
  /\ build' = "running" /\ foreign' = {}
  /\ UNCHANGED <<asked, staged>>

\* A publish task writes the files of one publication; nobody looks at them
\* before both are done.
Stage(published) ==
  /\ Running /\ written \cap DOMAIN published = {}
  /\ written' = written \cup DOMAIN published
  /\ staged' = [f \in Files |-> IF f \in DOMAIN published THEN published[f] ELSE staged[f]]
  /\ Declarable =>
       Cardinality({f \in written' : ~RightFile(f, staged'[f], staged'["aar"])}) <= MaxWrong
  /\ UNCHANGED <<asked, at, seen, receipt, zip, payload, bundle, build, foreign>>

\* Mutant: the bundle does not depend on the check of the pins.
UncheckedBundle ==
  /\ Running /\ written = Files /\ bundle = Nothing
  /\ bundle' = staged
  /\ UNCHANGED <<asked, staged, written, at, seen, receipt, zip, payload, build, foreign>>

\* centralPortalBundle depends on verifyPublicationPins.
CentralPortalBundle ==
  /\ Running /\ PinsPassed /\ bundle = Nothing
  /\ bundle' = staged
  /\ UNCHANGED <<asked, staged, written, at, seen, receipt, zip, payload, build, foreign>>

\* androidPublicationBundle depends on the two publish tasks.
AndroidPublicationBundle ==
  /\ Running /\ written = Files /\ zip = Nothing
  /\ zip' = staged
  /\ UNCHANGED <<asked, staged, written, at, seen, receipt, payload, bundle, build, foreign>>

\* publishToCentralPortal depends on the bundle and on verifyAndroidPublication.
Upload ==
  /\ Running /\ bundle # Nothing /\ payload # none
  /\ build' = "uploaded"
  /\ UNCHANGED <<asked, staged, written, at, seen, receipt, zip, payload, bundle, foreign>>

\* Another invocation in the same checkout stages a file.
StageForeign(f, c) ==
  /\ Running /\ Cardinality(foreign \cup {f}) <= MaxForeign
  /\ foreign' = foreign \cup {f}
  /\ staged' = [staged EXCEPT ![f] = c]
  /\ UNCHANGED <<asked, written, at, seen, receipt, zip, payload, bundle, build>>

StagingInit ==
  /\ asked \in Requests
  /\ staged = Nothing
  /\ written = {} /\ at = 0 /\ seen = Nothing /\ receipt = Nothing
  /\ zip = Nothing /\ payload = none /\ bundle = Nothing
  /\ build = "running" /\ foreign = {}

StagingNext ==
  \/ \E published \in Published :
       \/ Stage(published)
       \/ \E f \in DOMAIN published : StageForeign(f, published[f])
  \/ PinsStart \/ PinsRead \/ PinsPrint
  \/ CentralPortalBundle
  \/ AndroidPublicationBundle \/ VerifyAndroid
  \/ Upload
  \/ NewRun

StagingSpec == StagingInit /\ [][StagingNext]_stagingVars

-----------------------------------------------------------------------------
\* Properties.

\* What is uploaded is right for every consumer, provided that nobody else
\* staged anything during the run: the two checks read different copies at
\* different times, and neither is of the bundle that is uploaded
\* (android-publication.gradle.kts.fragment:76-130).
UploadedIsRight ==
  build = "uploaded" /\ foreign = {} => Right(bundle)

\* The receipts attest the files that are uploaded: a fingerprint differs
\* only for a file that somebody else staged during the run
\* (verify_publication_pins.py:104-105, verify_android_publication.py:132).
ReceiptsAttest ==
  build = "uploaded" =>
    /\ \A i \in DOMAIN Prints : Prints[i] \notin foreign => receipt[Prints[i]] = bundle[Prints[i]]
    /\ "aar" \notin foreign => payload = bundle["aar"]

\* A run is not refused without a reason: arguments that are not exact, or a
\* file that is not as it should be, staged by this run or by another.
RefusedForCause ==
  build = "failed" /\ foreign = {} => ~Declarable \/ ~Right(staged)
=============================================================================
