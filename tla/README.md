# Verification of arc-swap-kotlin

TLA+ models of this repository, checked with TLC and, where it says so, proved
with TLAPS. Paths are relative to the repository root, `src/` there being the
Kotlin source tree; `A.kt:n` is line `n` of
`src/commonMain/kotlin/io/github/kotlinmania/arcswap/A.kt`.

## 1. Inventory

| part | state it keeps | operations | what must hold |
|---|---|---|---|
| `ArcSwapAny.kt`, `ArcSwap.kt`, `Guard.kt` | one atomic reference `ptr`; guards are plain references | `load`, `loadFull`, `intoInner`, `store`, `swap`, `compareAndSwap`, `rcu` | every operation, the multi-step `rcu` included, looks indivisible; no update is lost; `rcu` finishes unless others keep storing |
| `ArcSwapOption.kt`, `IndependentArcSwap.kt` | the same, with a null and an `isOption` flag | factories | a null is a content like any other; the flag decides the serialized form |
| `Cache.kt` | a plain field `cached` per `Cache`; `MapCache`s share it | `load`, `revalidate`, `loadNoRevalidate`, `map` | `load` gives nothing older than the call, as far as the sharing allows |
| `Access.kt` | none | `load` through projections | one load, one object |
| `ArcSwapAny.equals`, `Serde.kt` | none | `equals`, `eq`, `serialize`, `deserialize` | the answer is about some moment of the call; round trip, null apart from a value |
| `RefCnt.kt`, `AsRaw.kt` | wrappers that pin an object | `intoPtr`, `fromPtr`, `inc`, `dec` | conversions keep the object |
| `build.gradle.kts`: Android SDK installer | `.android-sdk`: tools, packages, a marker, a temporary directory | download, extract, accept licenses, install | what counts as installed is complete; an interrupted installation can be resumed |
| `build.gradle.kts`: Central Portal | `staging-deploy`, the bundle, a deployment at the portal | stage, zip, upload, poll | success is reported of what was published, and once |
| `verification/android-publication.gradle.kts.fragment`, `verify_publication_pins.py`, `verify_android_publication.py` | `staging-deploy`, a ZIP, two receipts | stage, check pins, check the Android payload, bundle | what is uploaded is what was checked, and right for every consumer |
| `verification/sync_android_publication.py` | a saved plan, the files of a checkout | `plan`, `apply` | nothing is applied to a checkout other than the reviewed one |
| `verification/scan_rust_parity.py` | none: an index of manifests, a mapping, a report | `audit` | the workspace is Cargo's, and classified means nothing in it is open |
| `verification/scan_swift.py` | none: receipts and logs that jobs left | `scan` | evidence is accepted only of what is there now |
| `verification/enforce_swift6.py` | a manifest | `enforce` | the result is strict, readable by the compiler, and stable |
| `verification/verify_native_archive.py` | none: an archive, an object | `verify` | the members are read as `ar` wrote them |

**Interaction.** Everything in the library goes through `ptr`: guards and caches
hold references obtained from it, `Access.Map` and `MapCache` project what a load
returned, serialization loads once. The build scripts interact with the library
through files only, and with each other through the files of a checkout.

**What is hard.** Threads interleave between the three steps of `rcu` and between
the four of `Cache.load`; the callback of `rcu` may use the storage it is updating
(`ArcSwapTest.recursive`); comparisons are of identity, which only means something
while the object compared is kept alive; retries have no bound. Invocations of the
build are killed, fail halfway and overlap, over files that stay. The audits are
sequential, but what they read is left by others: jobs that failed halfway, edits
made since, files written again after they were checked. The list
`hazards` of `PROJECT.json` names each of these at its line.

## 2. Modules

| module | models | state | actions |
|---|---|---|---|
| `AtomicCell` | what the storage promises: an indivisible cell of contents | `value`, `ret[t]` (what `t` last received), `last` (which operation took effect) | `Read`, `Exchange`, `Write`, `TestAndSet`, `Update` |
| `ArcSwapAny` | the storage at the level of references | `ptr`, `heap` (content of the object at an address), `held[t]` (the object `t` last received), `stack[t]` (its unfinished `rcu` calls), `last` | `Load`, `Swap`, `Store`, `CompareAndSwap`; `RcuLoad`, `RcuEval`, `RcuThrow`, `RcuCas` |
| `ArcSwapAny_proofs` | theorems about `ArcSwapAny` and `Readers` | | |
| `Counter` | what the program of `ArcSwapTest.recursive` promises: threads look at a number, and add one while it is low | `count`, `stance[t]` | `Look`, `Add`, `Finish` |
| `RecursiveRcu` | the program of `ArcSwapTest.recursive` in several threads, over `ArcSwapAny` | adds `phase`, `counted`, `incs`, `boxCache` | `CallOuter`, `CallInner`, `Return`, `Cas` |
| `RecursiveRcu_proofs` | theorems about `RecursiveRcu` | | |
| `Cache` | `Cache` and `MapCache` over `AtomicCell` | `cached[c]`, `call[t]`, and the histories `current[t]`, `excused[t]` | `Begin`, `LoadFull`, `Compare`, `Refresh`, `Return`, `Store` |
| `Cache_proofs` | theorems about `Cache` | | |
| `AndroidSdk` | the SDK installer | `tools`, `zip`, `packages`, `marker`, `pc[b]`, `unpacked[b]` | one per step of the two functions, `Kill`, `Fail` |
| `AndroidSdk_proofs` | theorems about `AndroidSdk` | | |
| `CentralPortal` | `publishToCentralPortal` and the portal it talks to | `version`, `revision`, `staged`, `bundle`, `pc`, `run`, `attempt`, `portal`, `central` | `Start`, `Stage`, `Bundle`, `Upload`, `Poll`, `GiveUp`, `Fail`; `Validate`, `Publish`, `Change` |
| `CentralPortal_proofs` | theorems about `CentralPortal` | | |
| `SyncPublication` | `plan` and `apply` of `sync_android_publication.py` | `file[f]`, `committed[f]`, `saved`, `pc`, `next`, and the histories `edits`, `raced` | `Plan`, `StartApply`, `Recheck`, `Status`, `Skip`, `Look`, `Create`, `Truncate`, `Write`, `Crash`; `Edit`, `Commit`, `Restore` |
| `SyncPublication_proofs` | theorems about `SyncPublication` | | |
| `Readers` | `equals` and serialization, over storages that are atomic cells | `made[s]`, `content[s]`, `call`, and the history `moments` | `StoreInto`; `EqualsLeft`, `EqualsRight`; `SerializeLoad`, `Encode`, `Decode` |
| `CargoWorkspace` | `audit` of `scan_rust_parity.py` | the input (`rows`, `tree`, `cargo`, `open`), `pc`, `members`, `processed`, `gaps` | `CheckIndex`, `SelectMembers`, `Process`, `Gate` |
| `SwiftEvidence` | the acceptance decision of `scan_swift.py`, and the jobs it judges | `source`, `emitted`, `run`, `busy`, `logs`, `receipts`, `status`, and the histories `changes`, `disturbed` | `Scan`; `Export`, `Command`, `EditSource`, `EditEmitted` |
| `SwiftManifest` | `enforce_swift6.py`, and the test for a Swift 6 manifest of `scan_swift.py` | `manifest`, `edits`, `outcome`, and the history `original` | `Examine`, `Apply`, `Finish` |
| `SwiftManifest_proofs` | theorems about `SwiftManifest` | | |
| `NativeArchive` | `verify_native_archive.py` on what `ar` wrote | `packed`, `flavor`, `table`, `data`, `object`, `offset`, `names`, `found`, `verdict`, and the history `ends` | `ReadMember`, `Conclude`; `WriteMember`, `HandOver` |
| `StagedPublication` | both publication checks and the tasks around them | `asked`, `staged`, `written`, `at`, `seen`, `receipt`, `zip`, `payload`, `bundle`, `build`, and the history `foreign` | `PinsStart`, `PinsRead`, `PinsPrint`, `VerifyAndroid`; `Stage`, `CentralPortalBundle`, `AndroidPublicationBundle`, `Upload`, `NewRun`; `StageForeign` |
| `Audits_proofs` | theorems about `CargoWorkspace`, `SwiftEvidence`, `NativeArchive` and `StagedPublication` | | |
| `MC*` | values of the constants for TLC; `MCAudits` puts the five audits into one run | | |

Operators commented "Mutant" are wrong on purpose. Each stands for a definition
with a plausible bug in it, and the property it is paired with in `PROJECT.json`
fails when it takes that definition's place; nothing else uses them.

### The storage

`ArcSwapAny.kt:53` says that the garbage collector replaces the hazard pointers of
the Rust original. `ArcSwapAny.tla` makes that a claim that can fail: an address
is free as soon as nothing reaches it (`Live`: the storage, what each thread last
received, and what the frames of unfinished `rcu` calls refer to), and a new object
(`Yields`) may take any free address with any content. If guards did not keep
objects alive, an `rcu` could find the address it loaded back in the storage with
another content, and its `compareAndSwap` would succeed wrongly. An expression may
also yield an object that exists already, which covers callbacks that return their
argument and boxes of small numbers.

`rcu` takes three steps: `RcuLoad` (`:207`), `RcuEval` (`:209`, the callback
returns) and `RcuCas` (`:210-215`, return or retry with what `compareAndSwap`
returned). Between the first two the thread runs the callback: it may do any
operation, nested `rcu` calls included, and may throw (`RcuThrow`). `loadFull`,
`intoInner` and `load` are the same atomic load. A null, in an `ArcSwapOption`, is
one more object. The `current` of a `compareAndSwap` is what the caller last
received or an object the storage never held.

`ImplementsAtomicCell` is the refinement: `value` is the content at `ptr`, `ret[t]`
that of what `t` holds. The cell is told which operation takes effect (`last`), so
that a lost update cannot pass for a swap of the same value. The linearization
point of an `rcu` is its successful `compareAndSwap`.

`ImplementsCounter` is the second refinement, of the recursive test's program: `count`
is the content stored, and `Stance` says what the number a thread looked at makes of it:
it will add one (`low`), has done so (`added`), or has seen the limit (`high`). The
increment is the return of the inner call; the outer `compareAndSwap` that misses
because of it is how the thread looks again.

### Caches

`Cache` is checked against `AtomicCell`, which `ArcSwapAny_proofs` proves the
storage implements; here the values are the objects themselves, so `!==` is `#`.
`revalidate` loads, compares and writes in three steps; `load` then reads the field
again. `current[t]` records what was in the storage at some moment of the call,
`excused[t]` what was current during calls on the same cache that were under way
when it began. A cache used by one thread returns something from `current`
(`SoleUserFresh`). The KDoc says nothing of sharing a cache between threads, and
nothing in the class prevents it; what is true then is `FreshResult`: a slow
revalidation may put back an older object, but only one that was current while that
revalidation was running. The model is sequentially consistent; the field is
neither volatile nor locked, and what weaker memory adds for shared caches is not
modelled.

### The SDK installer

Each step of `downloadAndroidCommandLineTools` and `installProjectAndroidSdk` that
touches a file is an action; invocations overlap, and may be killed (no `finally`)
or fail (with it) at any of them. `sdkmanager` and the network are external:
`sdkmanager` runs when all its files are there, creates a package's directory
before it fills it, and completes one it finds partial. An entry of the ZIP is extracted
in one step (`Unpack`): copying it and marking it executable are not told apart, so a kill
inside an entry, which leaves a launcher that is torn or not executable, is not modelled; a kill
between entries, which leaves a launcher without the rest, is. `local.properties` and the
choice by task names are left out.

### Publishing

Runs of `publishToCentralPortal` follow each other in one checkout; the portal goes
on by itself. An artifact is the revision of the source it was built from, 0 if it
was never staged. `staged` survives runs, successful or not, as `staging-deploy`
does. An upload that the portal accepts may look failed to the task (`Upload`), which
then knows no id; the next run uploads another deployment of the version. Of the
portal the model assumes what the script relies on: a state per deployment id,
`VALIDATED` or `FAILED` after a while, an `AUTOMATIC` deployment published after it,
and one deployment published per version. `SuccessMeansReleased` says that success
is about the run's own build even so, which holds because polling is by id
(`build.gradle.kts:912`). A bundle does contain what earlier versions left in
`staging-deploy`; no document promises otherwise, and `BundlesAreWhole` states what
is true: of the version in question, everything, and of one revision.

### Synchronizing a checkout

A content is a set of hunks, so that `transform` adds one and an edit another, and
losing either shows. `apply` is modelled at every point where the checkout may change
under it: the comparison of a fresh plan with the saved one, `git status`, and per
file the hash, the opening, which empties the file, and the write. A kill may leave a
file emptied or partly written. `plan` reads at one moment. People edit and commit at
any time; they neither commit nor edit a file that a killed run left torn, they
restore it.

### Readers

`equals` loads two storages one after the other, and `serialize` encodes what it
loaded some time ago. A call is two steps, and other threads store before, between
and after them; `moments` records the contents the storages had during the call.
`equals` is about one of these moments when at most one of two storages changes
(`EqualsOfAMoment`). When both change it may answer for a pair of contents that
never existed together, and a storage that is stored into while it is compared with
itself may be unequal to itself; nothing in the repository promises otherwise.

`isOption` decides the form (`Serde.kt:41-53`), and each maker leaves it as its code
does. `RoundTrip` is about the makers whose deserializer exists. One maker is not
among them: `ArcSwapOption(value)` is the constructor under another name and leaves
the flag `false`, so its content is written without the option and
`ArcSwapOptionDeserialize` does not read it back, whereas the KDoc of
`arcSwapOptionEmpty` calls that factory "equivalent to `ArcSwapOption<T>(null)`"
(`ArcSwapOption.kt:38`). The two do differ once a value is stored and serialized.
The primitive types a serializer knows are abstracted to contents that can be written
and, in `Opaque`, contents that cannot (`Serde.kt:32`).

### The parity audit

A manifest is a name, a glob the set of manifests it matches, the content of a
manifest the pinned one or another. `rows` says of each local copy what it contains
and what its two recorded hashes were made from, so that any of them can be stale by
itself; `tree` is the inventory. The loop takes the least name first, the model any
member not yet processed, which covers it and shows that the order does not matter.
`Workspace` is the definition the loop is compared with: the least set that holds the
declared members and is closed under the path dependencies Cargo follows.
`ClassifiedIsComplete` says what an audit without findings amounts to. Features,
targets, inherited package fields and `[patch]` (`scan_rust_parity.py:151-204`) add
rows and findings of their own and are left out.

### Swift evidence

`scan` sees a source tree, generated files, logs and receipts, and accepts them or
does not. The model adds where they come from: a job exports, compiles the exported
modules and then the consumer, and runs the tests; any command may fail, log nothing
(a build that is up to date) or lack the strict flags; the next job writes the same log paths again. A
receipt also records, unseen by `scan`, which files the command worked on, and
`AcceptedIsCurrent` is about those. Source and generated files are edited, and put
back, at any time, also between two commands of a job; the job goes on, and `disturbed`
remembers it. Accepted evidence is always that of one job, whose export was of just the
files that are there now. That its compilers and tests worked on those files too holds
if nothing was edited while the job was on, and not otherwise: hashes taken at the
export and at the scan cannot show an edit that was put back in between. What is
assumed of the environment is that a run id belongs to one job. Evidence is any
export's receipt with any set of command receipts and a toolchain that is unchanged,
changed or not listed. The evidence also names the module of the consumer
(`scan_swift.py:136`); the model has one consumer, which is the module of the tests.
The rules that look for known problems in source text are regular expressions and are
left out.

### Swift manifests

The arguments of `Package(...)` are a sequence of cells: names, colons, values,
commas, line breaks. `Examine` refuses a manifest or decides on the edits, which are
insertions at offsets of that sequence; `Apply` is one turn of the loop that makes them, in the
order of `sorted(edits, reverse=True)`, which compares offsets and then texts; `Finish`
writes the header, whose offset is 0. An enforced manifest may be examined again.
`Order` has the thirteen arguments of `Package` in the order Swift requires.
`StrictIsSwift` reads the result as the compiler would, against that order and the
grammar of an argument list; `EnforcedOnce` enforces it again. The value of an argument
is one cell: the stack of brackets is left out.

Two layouts do not come out as they should, and the properties say so of the manifest as
it was written (`original`). `SharesOffset`: the closing parenthesis directly follows the
last argument and the modes are added there, so that the comma and the modes are
inserted at one offset, in the wrong order (section 3, `SwiftInline`). `Misplaces`:
platforms are added before the first of `products`, `dependencies` and `targets`
(`enforce_swift6.py:52`), but `pkgConfig`, `providers` or, without products, `traits`
may come before that one, and Swift wants platforms before all three. Such a
manifest, one for a system library for example, is enforced without complaint, has
every argument once and the mode, and does not compile. `StrictIsSwift` says that the order
is right exactly if the manifest is none of these. It is no finding: no comment
or test of the repository speaks of such a manifest, and generated ones have none of the
three arguments.

### Native archives

`ar` is external and speaks two dialects. It begins with the `Preamble`, the symbol
table and for GNU the table of long names, which may also list names that nobody uses,
and then writes one member after the other (`WriteMember`); `ends` remembers how long
the file was each time. `HandOver` gives the file to the verification, whole or cut
anywhere. `ReadMember` is one turn of the loop, over the cells of `data`: the slices,
`rstrip` and `split` of the code find a long name in the table or before the member's
bytes, the padding counts for the offset and not for the size. `FoundAsPacked` says that
members come out as they went in; `VerdictExact` compares the verdict with what was
packed: an archive passes exactly if it ends where a member does, there are members up to
there, all for the target, and the object is among them if one was given (`--object`).

### Publication checks

Gradle stages two publications; `verifyPublicationPins` reads the staged files one
by one and takes their fingerprints by reading them again; `centralPortalBundle`
packs the directory after it; `androidPublicationBundle` packs a ZIP of its own, at
any moment after both publications, and `verifyAndroidPublication` checks that;
`publishToCentralPortal` needs the bundle and that check. The order is the one the
`dependsOn` of the fragment declare, and nothing else. `staged` stays from run to
run. Another invocation may stage a file at any moment (`StageForeign`); `foreign`
remembers which. What a publication lists of a dependency is a sequence of versions, so
that one listed twice is refused. `Right` is the reference: what every consumer of the publication
should find, in the names that were asked for: the two checks are told the name of a
dependency in the Android POM by arguments of their own (`pomName`, `apiName`), which nothing compares. `UploadedIsRight` combines the two checks, neither of which looks at
the bundle. With another invocation in the same checkout it does not hold: files staged after
the check are uploaded, and what remains true is `ReceiptsAttest`, that the receipts
then tell which file it was not. The branch of the fragment that takes the root from
another host is left out.

## 3. Runs

| run | question | bounds |
|---|---|---|
| `ArcSwapAny` | do all operations of two threads look indivisible, and do guards pin objects | 3 addresses, 2 contents, callbacks that change the content and that return their argument, `rcu` inside the callback of `rcu` for one thread at a time (`NestOne`); addresses and threads are symmetric |
| `ArcSwapLive` | can `rcu` calls retry for ever without anybody storing | 2 threads, 3 addresses |
| `RecursiveRcu` | does the recursive test's program, run by two threads, count right, implement a counter and finish | limit 3; boxes shared or not |
| `Cache` | how old can a result be, of a shared cache and of one used through a mapped cache | 2 threads, 2 caches, 3 objects, a projection that swaps two of them |
| `Readers` | what do `equals` and serialization answer while others store | 2 storages of every maker, a content that can be written and one that cannot, 4 moments in a call |
| `AndroidSdk` | can overlapping, killed and failing invocations leave something incomplete that counts as installed; do later ones recover | 2 invocations, 3 faults, 3 entries, 2 packages |
| `AndroidSdkKilled` | is the SDK always installed in the end: **violated** | 1 fault |
| `Portal` | is success reported only of what was published; are bundles whole; do runs end | 2 publications, 2 versions, 2 revisions, 2 deployments, 2 status checks |
| `Sync` | which edits can `apply` lose; can a killed or refused `apply` always be finished | 3 files, 2 edits, 2 kills |
| `SyncRaced` | is concurrent work preserved without exception: **violated** | 1 edit, no kill |
| `Audits` | are the verdicts of the five audits the right ones | see below |
| `SwiftInline` | is an enforced manifest stable when its parenthesis follows the last argument: **violated** | every combination of arguments |

`Audits` is five questions in one run: a behaviour chooses one of five subjects at
the start and the others do not move, so its states are the sum of theirs. `cargo`
takes every workspace of three manifests with at most one dependency each and any of
them known or indexed, then a full one with one stale or missing copy, any inventory,
or one missing review. `evidence` has two revisions that export different modules, two
jobs and two edits, which is what an edit takes that is put back. `manifest` has any set
of nine arguments, those of every kind the code or Swift tells apart, on one line or on
several, with and without a trailing comma, the closing parenthesis on its own line or
not, and with fewer arguments every version and mode. `archive`
has at most two members of one or two bytes, for two machines, with short and long
names, a table of at most two names, an object to look for or none, and is cut anywhere. `staging` has two dependencies, one of them with another name on Android,
arguments that are right, ambiguous, unmapped, different for the two checks or not exact, at most one wrong file in
a run and at most one staged by others.

`Cache` uses a view: a state is the same whatever operation took effect last, and
whatever a thread received before its present call. The storage's own run and the
proofs of both modules do without.

**Why the bounds are enough.** A wrong `compareAndSwap` takes two threads, one that
stalls and one that stores; address reuse takes the stalled thread's object, the
stored one and a free address; two contents tell an update from its loss, and the
recursive program, whose contents are counts, tells every number of updates apart.
Three objects are what staleness needs in a shared cache: the one a slow call loaded,
the one stored since, and a third for the call that overlaps. One fault is enough for
the installer's counterexample; more are there for runs that hold. Two deployments of
one version, from two revisions, are what confusing one with the other takes, and a
second version is what the leftovers in `staging-deploy` take. Four moments are one
before, one between and one after the two loads of a call, and one to spare. Three
manifests make a chain, a cycle and one left out; two jobs, one of them failing
halfway, make the mixture of logs that must be refused; two long names make one read
for the other; one wrong file is what each check has to catch by itself. One edit is lost or
kept by itself; the second lets one be committed while another is raced.

**Fairness.** `ArcSwapLive` and `RecursiveRcu` assume that a thread inside an `rcu`
is scheduled again and again and that its callbacks end; nobody is obliged to call
anything else, and no operation is assumed to succeed. `AndroidSdk` and
`AndroidSdkKilled` assume that an invocation that runs goes on, and that the
developer repeats it until the SDK is there; faults are bounded, so they end.
`Portal` assumes that a run goes on, hence that a request ends: `HttpClient` is given no
timeout, so this is up to the portal and the network. `Sync` assumes that a run of the
tool goes on, and that the owner of the checkout does too: again and again restores
what is torn, commits what is not, plans, applies. `Audits` assumes that the loop of
the parity audit goes on (`AuditEnds`); nobody is obliged to begin anything.
Deadlock is not checked in the installer's runs nor in those of the audits: once the
SDK is installed, or a verdict is given, nothing is left to do.

**Findings.** `AndroidSdkKilled`: the command line tools are extracted in place, and
whether to fetch them is decided by the launcher's existence alone
(`build.gradle.kts:276`). A run that ends after extracting the launcher and before
the rest leaves a state no later run leaves, though the task "ensures the
project-local Android SDK is installed (idempotent)" (`:354`). `AndroidSdk`
shows that this is the only such state once invocations no longer overlap.

`SyncRaced`: `apply` hashes a file and overwrites it in the next statement
(`sync_android_publication.py:236-237`). An edit saved between the two is gone, though
the tool refuses a "dirty checkout" in order to "preserve concurrent work" (`:225`).
`Sync` shows that no edit is lost at any other moment; files that are created are safe,
because creation is exclusive (`:240`).

`SwiftInline`: when the closing parenthesis of `Package(...)` directly follows the
last argument, the comma for that argument and the `swiftLanguageModes` argument
have the same offset (`enforce_swift6.py:71-72`). The edits are sorted backwards, so
the comma is inserted first and the argument before it: `targets: []`, line break,
`swiftLanguageModes: [.v6]`, line break, `,)`. That is no Swift, and enforcing it again inserts the
argument once more, though a test is named "is_swift6_and_idempotent"
(`test_strict_swift.py:24`). `Audits` shows that manifests for which the two edits have
offsets of their own stay as they are (`StaysEnforced`). `test_strict_swift.py:69`
does have a manifest of the other layout, and looks at the first line of the result only.

## 4. Proofs

| theorem | says |
|---|---|
| `ArcSwapAny_proofs!TypeCorrect` | `Spec => []TypeOK` |
| `ArcSwapAny_proofs!GuardsArePins` | `Spec => []GuardsPin` |
| `ArcSwapAny_proofs!RefinesAtomicCell` | `Spec => ImplementsAtomicCell` |
| `RecursiveRcu_proofs!ClientUsesStorage` | `ClientSpec => Spec` |
| `RecursiveRcu_proofs!ClientTypeCorrect` | `ClientSpec => []ClientTypeOK` |
| `RecursiveRcu_proofs!IncrementsCorrect` | `ClientSpec => []NoLostIncrement` |
| `RecursiveRcu_proofs!CountCorrect` | `ClientSpec => []CountsToLimit` |
| `RecursiveRcu_proofs!RefinesCounter` | `ClientSpec => ImplementsCounter` |
| `Cache_proofs!CacheTypeCorrect` | `CacheSpec => []CacheTypeOK` |
| `Cache_proofs!LoadIsFresh` | `CacheSpec => []FreshResult` |
| `Cache_proofs!SoleUserLoadIsFresh` | `CacheSpec => []SoleUserFresh` |
| `ArcSwapAny_proofs!EqualsCorrect` | `ReadersSpec => []EqualsOfAMoment` |
| `ArcSwapAny_proofs!RoundTripCorrect` | `ReadersSpec => []RoundTrip` |
| `AndroidSdk_proofs!SdkTypeCorrect` | `Spec => []SdkTypeOK` |
| `AndroidSdk_proofs!InstalledCorrect` | `Spec => []InstalledIsComplete` |
| `AndroidSdk_proofs!TornIsFinal` | `Spec => [](Stuck => [](Stuck /\ ~Installed))` |
| `CentralPortal_proofs!PortalTypeCorrect` | `Spec => []PortalTypeOK` |
| `CentralPortal_proofs!SuccessCorrect` | `Spec => []SuccessMeansReleased` |
| `CentralPortal_proofs!BundlesCorrect` | `Spec => []BundlesAreWhole` |
| `SyncPublication_proofs!SyncTypeCorrect` | `Spec => []SyncTypeOK` |
| `SyncPublication_proofs!EditsCorrect` | `Spec => []EditsKept` |
| `Audits_proofs!CargoTypeCorrect` | `CargoSpec => []CargoTypeOK` |
| `Audits_proofs!ClosureCorrect` | `CargoSpec => []ClosureFound` |
| `Audits_proofs!ClassifiedCorrect` | `CargoSpec => []ClassifiedIsComplete` |
| `Audits_proofs!EvidenceTypeCorrect` | `EvidenceSpec => []EvidenceTypeOK` |
| `Audits_proofs!AcceptanceCorrect` | `EvidenceSpec => []AcceptedIsCurrent` |
| `Audits_proofs!ArchiveTypeCorrect` | `ArchiveSpec => []ArchiveTypeOK` |
| `Audits_proofs!MembersCorrect` | `ArchiveSpec => []FoundAsPacked` |
| `Audits_proofs!VerdictCorrect` | `ArchiveSpec => []VerdictExact` |
| `SwiftManifest_proofs!ManifestTypeCorrect` | `ManifestSpec => []ManifestTypeOK` |
| `SwiftManifest_proofs!StrictCorrect` | `ManifestSpec => []StrictIsSwift` |
| `SwiftManifest_proofs!OnceCorrect` | `ManifestSpec => []StaysEnforced` |
| `Audits_proofs!UploadCorrect` | `StagingSpec => []UploadedIsRight` |
| `Audits_proofs!ReceiptsCorrect` | `StagingSpec => []ReceiptsAttest` |
| `Audits_proofs!RefusalCorrect` | `StagingSpec => []RefusedForCause` |

They hold for every value of the constants under the assumptions the modules declare,
each of which the runs evaluate on their instance:

- storage and caches, for every set of threads, addresses, contents, update functions,
  caches and handles and every nesting depth: update functions map contents to
  contents (`FnsAssumption`), the depth is positive (`DepthAssumption`), each thread's
  handles are handles (`UsersAssumption`);
- the recursive program, for every number of threads and every limit: the contents
  include the numbers that can be reached, each number has an address for its box, and there are
  more addresses than reachable objects (`NumbersAssumption`), so that a new box can be
  made, as on a heap that is not exhausted; the two callbacks are among the update
  functions (`CallbacksAssumption`). Addresses may be infinitely many;
- readers: a null is no content and opaque contents are contents (`OpaqueAssumption`);
- installer, portal and synchronization, for every number of invocations, entries and
  packages, of publications, versions, revisions, deployments and status checks, of
  files and edits: the launcher is one of the entries (`EntriesAssumption`), the
  plan has at least one file and the build file is among them (`OrderAssumption`,
  `BuildAssumption`), an edit is none of the tool's own hunks (`EditsAssumption`), and the
  bounds of the runs are numbers (`FaultsAssumption`, `BoundsAssumption`,
  `AttemptsAssumption`, `CrashesAssumption`): kills and failures may be as many as one likes;
- audits, for every set of manifests, aliases, sources, names, objects, dependencies and
  publications and any number of jobs, of members of an archive and of runs of Gradle: the root is a manifest and the two marks
  for "no path" and "a path outside" are none (`RootAssumption`, `PathAssumption`), a source
  exports some module and none with the name of a log (`ModulesAssumption`), the numbers of jobs and edits have
  bounds (`MaxRunAssumption`), objects are sequences of bytes, no name is both short and long, none
  is that of a symbol table or one of the marks that end a name (`ArchiveAssumption`), the API edges are among the dependencies and a dependency's
  name among the artifacts (`PublicationAssumption`), and a publish task writes files
  of a publication (`PublishedAssumption`);
- Swift manifests, for every set of manifests of any length, arguments and layout: what
  was written is Swift (`WrittenAssumption`). What the two properties leave out
  (`SharesOffset`) is part of their statement, and they do not hold without:
  `SwiftInline` is a counterexample.

*The storage.* `TypeOK /\ GuardsPin` is inductive by itself: `GuardsPin` says that
each frame's `cur` still has the content it had when loaded, and its `new` the
content `fn` makes of that one. `YieldsKeeps` is the heart of it: a new object never
takes the place of a reachable one. The refinement needs `GuardsPin` at one step, a
successful `RcuCas`: there `ptr = cur`, so the content replaced is the content the
callback was given, and what is stored is the function of it. The sequence lemmas
`Push`, `PopProperties` and `RewriteProperties` say what a call, a return and a retry
do to the stack.

*Counting.* `ClientUsesStorage` shows that the recursive program is a client of the
storage, so the theorems above hold of it. What it counts is the number stored, and
`NoLostIncrement` is not inductive without a history of what each thread has seen.
`ClientInv` says of every thread which calls are on its stack (`Shape`); that each of
them looked at a number not above the stored one, and at a smaller one if it has
counted since (`Past`); and that an outer callback returns without counting only a
number that has reached the limit (`Decided`). So a `compareAndSwap` of an outer call
succeeds only if it has nothing to add, or fails because of its own increment. The upper
bound is `Overshoot`: past the limit, a thread that will still count is one of those
that saw a smaller number, and each of them counts once. The program can go on because
a free address exists: `LiveIsSmall` counts the reachable objects.

*The counter.* `RefinesCounter` uses the same invariant, step by step (`CounterStep` and
the conclusions of the lemmas about steps). Calling the outer `rcu` is a `Look`, as the number it
loads decides what the callback does (`GuardsPin` keeps it for the callback to read); the return of
an inner call is an `Add` and that of an outer one a `Finish`, because an outer call that had
counted would have missed (`Past`). Returning callbacks and inner retries are nothing to the
counter. An outer retry is a `Look` if the thread has counted, and nothing if another thread
caused it, as the limit that it had seen was reached then and still is (`Decided`).

*Caches.* `FreshResult` is not inductive: it speaks of finished calls. `IInv` adds
what is true inside a call: the value loaded is in `current`
(`LoadedIsCurrent`), the value stored now is in every running call's `current`
(`ValueIsCurrent`), the field read last is allowed (`FieldIsAllowed`), and, for the
writes of others, whatever was current during an overlapping call on the same cache
is allowed too (`OverlapsAreExcused`). For a sole user `excused` is empty, because
every call is made on a handle of its thread (`HandlesAreUsed`).

*Readers.* Between its two steps a call knows what it loaded. `ReadersInv` says that
some moment of the call had that content (`Loaded`), that the present is one of the
moments (`Current`), which is what the second load needs, and that what was written
is the form of a content of some moment (`Written`). `ReadBackForm` is the round trip
itself, without threads: a deserializer of the storage's kind undoes the form.

*The installer.* `InstalledIsComplete` is about a marker written long after the packages
were looked at, with others at work in between. It holds because no step takes
anything from a complete package (`CompleteStays`): then what an invocation found
before it goes to the marker (`Witnessed`) is still so when it writes it, and ever after.
`TornIsFinal` is the finding for every instance: from a launcher without its
files, with nobody about to unpack or to write the marker (`Stuck`), no invocation gets
past `--licenses`.

*The portal.* `RunInv` ties the run to what it uploaded: the source does not change
under a run (`RunIsOfNow`), what it is about to upload is of that source
(`BundleIsOfNow`), and the id it polls is that of its own deployment
(`OwnDeployment`). `PublishedIsCentral` says that Central has what the portal calls
published, and `SuccessSeen` that a run that succeeded saw this of its own
deployment; deployments only change their state (`Handling`), and a published one does
not change again. Together they give `SuccessMeansReleased`, and `BundleIsOfNow` gives `BundlesAreWhole`.

*Synchronizing.* `EditsKept` allows an edit to be at HEAD only, without saying when.
`SyncInv` says when: only for the build file, while its own text is missing from it
(`EditsAreThere`); any other file with edits in it is never written. For the build
file three facts come together: what was reviewed is in it until its turn
(`ReviewedIsThere`), is at HEAD once the checkout was found clean
(`ReviewedIsCommitted`, which also needs that nobody commits the file while it is
torn), and what `apply` overwrites had been reviewed (`OverwritesReviewed`, from the
comparison of `:236`). `OverwriteKeeps` is the step that creating, emptying, writing and tearing share.

*The parity audit.* The loop invariant has both halves of "least closed set":
everything found belongs to the workspace (`Found`, from `WorkspaceClosed`), and the
declared members and the dependencies of everything processed have been found
(`Followed`), so that at the end what was found is closed (`WorkspaceLeast`). For the
verdict, `IndexChecked` carries what the index established to the end, and `NoGaps`
that an audit still without findings has seen nothing to report in what it processed.

*Swift evidence.* `scan` compares only receipts with receipts and files with files.
That they speak of the same checkout is `OneCheckout`: all receipts of one undisturbed
run agree on the files worked on, which is inductive with `OnThisCheckout` (the job at
work, if undisturbed, has worked on what is there now), `Numbered` and `AtWork`; an edit
changes what is there and disturbs the job at work in one step (`DisturbKeeps`). `Exports` adds that a
successful export left all its files, and `Judged` that what was accepted is still there.

*Native archives.* The archive is made of any number of blocks, yet nothing here is
proved by induction over a sequence: `ar` writes one block in each step, and `ArchiveInv`
is inductive over those steps and the steps of the loop. Of the preamble
(`PreambleStands`) and of each member (`MembersStand`) it says that their block stands
where it was written, as far as the file still goes, and that nothing lies between them
(`EndsGrow`, `Extent`). `Position` says that the loop is always at the beginning of a
block, so that what it finds at `offset` is a header and not some byte of an object; that it
has found the members before it; and that the table of names is there once they are
read. Then the lemmas about one block do the rest: `rstrip` and `split` give back the
name that was written, the payload is the object, and a block that is not whole is
`Truncated`, while one that is whole is not. `Judgement` follows: a block that
is not whole means that the file ends within a member, since the members' ends grow, and
then nothing there is to be accepted; nor is there if a member is for another target.

*Swift manifests.* A text has any number of cells, and again no induction over it is
needed: `Apply` makes one edit, and `EditInv` is about the text between two. The largest
offset goes first, so nothing is inserted before a pending edit, and the edits that are
left are those that `enforce` would decide on if it started with the text as it is
(`Whole`). One moment is an exception: of the two edits at the end the modes come first,
when the comma before them is still missing and the text is no argument list. Then
the comma is among the edits left, and all of this is so of the text it makes
(`CommaMissing`, from `OutOfOrder`). That the modes do come first is where `SharesOffset` is
excluded: something stands between the last argument and the parenthesis, so the two offsets differ
(`Apart`, `EndBeforeComma`). The order of the arguments cannot be the invariant, since it is not always
kept. What is kept is a weaker one in which platforms may also come after `pkgConfig`,
`providers` and `traits` (`Loosely`), together with whether they do: `Acceptable` says that the
platforms, or the place they will be added at, are late exactly if the manifest was one that `Misplaces`. The lemmas about one insertion say which tokens there are and which of
them are adjacent, whether it is an argument before another one (`ArgumentAdjacent`) or
something after all tokens (`TailTokens`); from them come that the list stays a list,
stays in order, and gains one name.

*Publications.* Once both publications are staged, a file that nobody else stages has
one content for the rest of the run. `StagingInv` says of every copy made since that
it agrees with that content: what the check of the pins has read (`ReadSoFar`) and
fingerprinted (`PrintedSoFar`), the ZIP (`Zipped`) and the bundle (`Bundled`); and
that nothing is copied earlier (`Begun`). `CopiesKept` is the step all actions share.
`GoodIsRight` and `RightIsGood` say what the checks mean: `Right` is exactly what
both of them together require. The first gives `UploadCorrect`, the second
`RefusalCorrect`.

*Model-checked only.* Liveness (`LockFree`, `AllReturn`, `InstalledUnlessTorn`,
`EveryRunEnds`, `EventuallySynced`, `AuditEnds`) is beyond the prover. Every
invariant of the passing runs and both refinements are proved.

## 5. Not modelled, and the plan

Not modelled, for these reasons:

- `Access.kt`: each `load` is one load and a pure projection. Two loads through two
  projections may see two objects, as any two loads may; combining them is the
  caller's. `RefCnt.kt` and `AsRaw.kt`: immutable wrappers around a reference, with no
  count kept and no caller in the library; `PinnedRefCnt.fromPtr` makes a new wrapper
  (`RefCnt.kt:169`), which a sequential test shows.
- `toString` and `hashCode` of the storage: one load.
- `check_android_classpath.py` groups class names by owner in one pass, and
  `verify_swift_package.py` applies two regular expressions to one file.
- The text rules of `scan_swift.py`, glob matching, and the rows for features,
  targets and package fields in `scan_rust_parity.py`.
- `local.properties` and task selection of the SDK installer; credentials and the
  multipart body of the upload; the cross-host branch of the Android fragment.
- Gradle wiring, CI workflows and the vendored karma-webpack plugin: declarations and
  third-party code.
- Weak memory: what an unsynchronized `cached` field of a shared `Cache` may show
  beyond sequential consistency.

What is left of the plan: the cross-host branch of `StagedPublication`, and what follows
from the theorems by composition, such as a cache over the storage instead of over a cell.
