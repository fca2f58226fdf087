----------------------------- MODULE AndroidSdk -----------------------------
(***************************************************************************)
(* The Android SDK installer of build.gradle.kts: Gradle invocations that  *)
(* may run at the same time on one checkout, may be killed at any point    *)
(* and may meet network and disk errors, over the files they leave behind  *)
(* in .android-sdk.                                                        *)
(*                                                                         *)
(* The command line tools are a set of zip entries, one of which is the    *)
(* sdkmanager launcher that decides whether they are fetched again.        *)
(***************************************************************************)
EXTENDS Naturals

CONSTANTS
  Builds,     \* the Gradle invocations, each repeated for ever
  Entries,    \* what the command line tools consist of
  sdkmanager, \* the entry bin/sdkmanager
  Packages,   \* requiredAndroidSdkPackageDirs
  MaxFaults   \* bound: kills and failures all together

ASSUME EntriesAssumption == sdkmanager \in Entries
ASSUME FaultsAssumption == MaxFaults \in Nat

VARIABLES
  tools,      \* cmdline-tools/latest: the entries extracted
  zip,        \* does the downloaded zip exist in .tmp
  packages,   \* packages[k]: what sdkmanager has installed of k
  marker,     \* does .install-complete exist
  pc,         \* pc[b]: where invocation b is
  unpacked,   \* unpacked[b]: the entries b has extracted from its zip
  faults      \* kills and failures so far

vars == <<tools, zip, packages, marker, pc, unpacked, faults>>

Places == {"idle", "tools", "fetch", "download", "clear", "open", "unpack",
           "licenses", "install", "marker"}

SdkTypeOK ==
  /\ tools \subseteq Entries
  /\ zip \in BOOLEAN
  /\ packages \in [Packages -> {"absent", "partial", "complete"}]
  /\ marker \in BOOLEAN
  /\ pc \in [Builds -> Places]
  /\ unpacked \in [Builds -> SUBSET Entries]
  /\ faults \in 0..MaxFaults

-----------------------------------------------------------------------------
\* isProjectAndroidSdkInstalled(): the directories exist, in whatever state.
Installed ==
  /\ marker
  /\ sdkmanager \in tools
  /\ \A k \in Packages : packages[k] # "absent"

Goto(b, place) == pc' = [pc EXCEPT ![b] = place]

Check(b) ==
  /\ pc[b] = "idle"
  /\ ~Installed
  /\ Goto(b, "tools")
  /\ UNCHANGED <<tools, zip, packages, marker, unpacked, faults>>

\* if (!androidSdkManager.exists()) downloadAndroidCommandLineTools()
CheckTools(b) ==
  /\ pc[b] = "tools"
  /\ Goto(b, IF sdkmanager \in tools THEN "licenses" ELSE "fetch")
  /\ UNCHANGED <<tools, zip, packages, marker, unpacked, faults>>

\* tmpDir.deleteRecursively()
EmptyTmp(b) ==
  /\ pc[b] = "fetch"
  /\ zip' = FALSE
  /\ Goto(b, "download")
  /\ UNCHANGED <<tools, packages, marker, unpacked, faults>>

\* The zip is whole once the copy has ended.
Download(b) ==
  /\ pc[b] = "download"
  /\ zip' = TRUE
  /\ Goto(b, "clear")
  /\ UNCHANGED <<tools, packages, marker, unpacked, faults>>

Clear(b) ==
  /\ pc[b] = "clear"
  /\ tools' = {}
  /\ Goto(b, "open")
  /\ UNCHANGED <<zip, packages, marker, unpacked, faults>>

\* The zip is opened, unless another invocation has removed it: then the
\* exception ends this one.
Open(b) ==
  /\ pc[b] = "open"
  /\ unpacked' = [unpacked EXCEPT ![b] = {}]
  /\ Goto(b, IF zip THEN "unpack" ELSE "idle")
  /\ UNCHANGED <<tools, zip, packages, marker, faults>>

\* Mutant: the entry's "cmdline-tools/" prefix is not removed.
PrefixedUnpack(b, e) ==
  /\ pc[b] = "unpack"
  /\ e \notin unpacked[b]
  /\ tools' = tools \cup {<<"cmdline-tools", e>>}
  /\ unpacked' = [unpacked EXCEPT ![b] = @ \cup {e}]
  /\ UNCHANGED <<zip, packages, marker, pc, faults>>

Unpack(b, e) ==
  /\ pc[b] = "unpack"
  /\ e \notin unpacked[b]
  /\ tools' = tools \cup {e}
  /\ unpacked' = [unpacked EXCEPT ![b] = @ \cup {e}]
  /\ UNCHANGED <<zip, packages, marker, pc, faults>>

\* finally { tmpDir.deleteRecursively() }
Close(b) ==
  /\ pc[b] = "unpack"
  /\ unpacked[b] = Entries
  /\ zip' = FALSE
  /\ unpacked' = [unpacked EXCEPT ![b] = {}]
  /\ Goto(b, "licenses")
  /\ UNCHANGED <<tools, packages, marker, faults>>

\* sdkmanager --licenses: it runs when all of its files are there, and
\* otherwise fails and takes the build down with it.
Licenses(b) ==
  /\ pc[b] = "licenses"
  /\ Goto(b, IF tools = Entries THEN "install" ELSE "idle")
  /\ UNCHANGED <<tools, zip, packages, marker, unpacked, faults>>

\* sdkmanager makes a package's directory, then fills it.
InstallPackage(b, k) ==
  /\ pc[b] = "install"
  /\ packages[k] # "complete"
  /\ packages' = [packages EXCEPT ![k] = IF @ = "absent" THEN "partial" ELSE "complete"]
  /\ UNCHANGED <<tools, zip, marker, pc, unpacked, faults>>

\* Mutant: the exit value of sdkmanager is not looked at.
UncheckedInstall(b) ==
  /\ pc[b] = "install"
  /\ Goto(b, "marker")
  /\ UNCHANGED <<tools, zip, packages, marker, unpacked, faults>>

\* installResult.exitValue == 0
InstallDone(b) ==
  /\ pc[b] = "install"
  /\ \A k \in Packages : packages[k] = "complete"
  /\ Goto(b, "marker")
  /\ UNCHANGED <<tools, zip, packages, marker, unpacked, faults>>

\* Mutant: the marker is forgotten.
NoMarker(b) ==
  /\ pc[b] = "marker"
  /\ Goto(b, "idle")
  /\ UNCHANGED <<tools, zip, packages, marker, unpacked, faults>>

WriteMarker(b) ==
  /\ pc[b] = "marker"
  /\ marker' = TRUE
  /\ Goto(b, "idle")
  /\ UNCHANGED <<tools, zip, packages, unpacked, faults>>

-----------------------------------------------------------------------------
\* Failures.

\* The process is killed: no handler runs.
Kill(b) ==
  /\ pc[b] # "idle"
  /\ faults < MaxFaults
  /\ faults' = faults + 1
  /\ Goto(b, "idle")
  /\ unpacked' = [unpacked EXCEPT ![b] = {}]
  /\ UNCHANGED <<tools, zip, packages, marker>>

\* A download, an extraction or sdkmanager fails: `finally` removes the
\* temporary directory, and what was extracted or installed stays.
Fail(b) ==
  /\ pc[b] \in {"download", "clear", "open", "unpack", "licenses", "install"}
  /\ faults < MaxFaults
  /\ faults' = faults + 1
  /\ zip' = (zip /\ pc[b] \in {"licenses", "install"})
  /\ Goto(b, "idle")
  /\ unpacked' = [unpacked EXCEPT ![b] = {}]
  /\ UNCHANGED <<tools, packages, marker>>

-----------------------------------------------------------------------------
\* Any state a fresh checkout, or one with the SDK removed, can be in.
Init ==
  /\ tools = {}
  /\ zip = FALSE
  /\ packages = [k \in Packages |-> "absent"]
  /\ marker = FALSE
  /\ pc = [b \in Builds |-> "idle"]
  /\ unpacked = [b \in Builds |-> {}]
  /\ faults = 0

Step(b) ==
  \/ Check(b) \/ CheckTools(b)
  \/ EmptyTmp(b) \/ Download(b) \/ Clear(b) \/ Open(b) \/ Close(b)
  \/ \E e \in Entries : Unpack(b, e)
  \/ Licenses(b)
  \/ \E k \in Packages : InstallPackage(b, k)
  \/ InstallDone(b) \/ WriteMarker(b)

Next == \E b \in Builds : Step(b) \/ Kill(b) \/ Fail(b)

Spec == Init /\ [][Next]_vars

\* Invocations go on, and the developer repeats them until the SDK is there.
FairSpec == Spec /\ \A b \in Builds : WF_vars(Step(b))

-----------------------------------------------------------------------------
\* Properties.

\* What later invocations take for installed has every package complete,
\* whichever invocations were killed, failed or overlapped on the way there
\* (build.gradle.kts:217-220, 308-316).
InstalledIsComplete == Installed => \A k \in Packages : packages[k] = "complete"

\* The launcher is there and some of what it needs is not, and nobody is
\* extracting: no invocation will fetch the tools again.
Torn ==
  /\ sdkmanager \in tools
  /\ tools # Entries
  /\ \A b \in Builds : pc[b] \notin {"fetch", "download", "clear", "open", "unpack"}

OneAtATime ==
  \A b, c \in Builds : b # c => (pc[b] = "idle" \/ pc[c] = "idle")

\* Once invocations no longer overlap the SDK is installed in the end unless
\* the tools are torn: the first run after the last failure picks up whatever
\* the earlier ones left, overlapping or not (build.gradle.kts:270-317).
\* Invocations that go on overlapping can remove each other's zip for ever.
InstalledUnlessTorn == <>[]OneAtATime => <>(Installed \/ Torn)

\* "Ensures the project-local Android SDK is installed (idempotent)."
\* (build.gradle.kts:354).
EnsuresInstalled == <>Installed
=============================================================================
