-------------------------- MODULE AndroidSdk_proofs --------------------------
(***************************************************************************)
(* What the Android SDK installer leaves behind, for every number of       *)
(* invocations that overlap, are killed or fail.                           *)
(***************************************************************************)
EXTENDS AndroidSdk, TLAPS

\* The files and the invocations are as the types say, whatever invocations
\* are killed or fail (build.gradle.kts:217-317).
THEOREM SdkTypeCorrect == Spec => []SdkTypeOK
<1>1. Init => SdkTypeOK
  <2> SUFFICES ASSUME Init PROVE SdkTypeOK
    OBVIOUS
  <2>1. faults \in 0..MaxFaults
    BY FaultsAssumption DEF Init
  <2>2. marker \in BOOLEAN /\ zip \in BOOLEAN
    BY DEF Init
  <2>3. packages \in [Packages -> {"absent", "partial", "complete"}]
    BY DEF Init
  <2>4. pc \in [Builds -> Places] /\ unpacked \in [Builds -> SUBSET Entries]
    BY DEF Init, Places
  <2>5. QED  BY <2>1, <2>2, <2>3, <2>4 DEF Init, SdkTypeOK
<1>2. SdkTypeOK /\ [Next]_vars => SdkTypeOK'
  <2> SUFFICES ASSUME SdkTypeOK, [Next]_vars PROVE SdkTypeOK'
    OBVIOUS
  <2> USE DEF SdkTypeOK, Goto
  <2>1. ASSUME NEW b \in Builds, Check(b) \/ CheckTools(b) \/ EmptyTmp(b) \/ Download(b)
        PROVE  SdkTypeOK'
    BY <2>1 DEF Check, CheckTools, EmptyTmp, Download, Places
  <2>2. ASSUME NEW b \in Builds, Clear(b) \/ Open(b) \/ Close(b) \/ Licenses(b)
        PROVE  SdkTypeOK'
    BY <2>2 DEF Clear, Open, Close, Licenses, Places
  <2>3. ASSUME NEW b \in Builds, NEW e \in Entries, Unpack(b, e)
        PROVE  SdkTypeOK'
    BY <2>3 DEF Unpack
  <2>4. ASSUME NEW b \in Builds, NEW k \in Packages, InstallPackage(b, k)
        PROVE  SdkTypeOK'
    BY <2>4 DEF InstallPackage
  <2>5. ASSUME NEW b \in Builds, InstallDone(b) \/ WriteMarker(b)
        PROVE  SdkTypeOK'
    BY <2>5 DEF InstallDone, WriteMarker, Places
  <2>6. ASSUME NEW b \in Builds, Kill(b) \/ Fail(b)
        PROVE  SdkTypeOK'
    <3>1. faults' \in 0..MaxFaults
      BY <2>6, FaultsAssumption DEF Kill, Fail
    <3>2. zip' \in BOOLEAN
      BY <2>6 DEF Kill, Fail
    <3>3. QED  BY <2>6, <3>1, <3>2 DEF Kill, Fail, Places
  <2>7. CASE UNCHANGED vars
    BY <2>7 DEF vars
  <2>8. QED  BY <2>1, <2>2, <2>3, <2>4, <2>5, <2>6, <2>7 DEF Next, Step
<1>3. QED  BY <1>1, <1>2, PTL DEF Spec

-----------------------------------------------------------------------------
(***************************************************************************)
(* A package that is complete stays complete: no invocation, not even one  *)
(* that fails, removes or rewrites it.  So what an invocation has seen     *)
(* complete before it writes the marker is complete ever after.            *)
(***************************************************************************)
AllComplete == \A k \in Packages : packages[k] = "complete"

Witnessed == marker \/ (\E b \in Builds : pc[b] = "marker") => AllComplete

LEMMA CompleteStays ==
  ASSUME SdkTypeOK, [Next]_vars, NEW k \in Packages, packages[k] = "complete"
  PROVE  packages'[k] = "complete"
<1>1. ASSUME NEW b \in Builds, NEW j \in Packages, InstallPackage(b, j)
      PROVE  packages'[k] = "complete"
  BY <1>1 DEF InstallPackage, SdkTypeOK
<1>2. QED
  BY <1>1 DEF Next, Step, vars, Check, CheckTools, EmptyTmp, Download, Clear, Open, Close,
              Unpack, Licenses, InstallDone, WriteMarker, Kill, Fail

\* Who gets to the marker has found every package complete.
LEMMA ReachesMarker ==
  ASSUME SdkTypeOK, [Next]_vars, NEW c \in Builds, pc'[c] = "marker"
  PROVE  pc[c] = "marker" \/ AllComplete
<1> USE DEF SdkTypeOK, Goto
<1>1. ASSUME NEW b \in Builds, InstallDone(b)
      PROVE  AllComplete
  BY <1>1 DEF InstallDone, AllComplete
<1>2. ASSUME NEW b \in Builds,
             \/ Check(b) \/ CheckTools(b) \/ EmptyTmp(b) \/ Download(b)
             \/ Clear(b) \/ Open(b) \/ Close(b) \/ Licenses(b) \/ WriteMarker(b)
             \/ Kill(b) \/ Fail(b)
      PROVE  pc[c] = "marker"
  BY <1>2 DEF Check, CheckTools, EmptyTmp, Download, Clear, Open, Close, Licenses,
              WriteMarker, Kill, Fail
<1>3. ASSUME NEW b \in Builds, \/ \E e \in Entries : Unpack(b, e)
                               \/ \E k \in Packages : InstallPackage(b, k)
      PROVE  pc[c] = "marker"
  BY <1>3 DEF Unpack, InstallPackage
<1>4. CASE UNCHANGED vars
  BY <1>4 DEF vars
<1>5. QED  BY <1>1, <1>2, <1>3, <1>4 DEF Next, Step

\* Whatever invocations did on the way, an SDK that later ones take for
\* installed has all its packages (build.gradle.kts:217-220, 308-316).
THEOREM InstalledCorrect == Spec => []InstalledIsComplete
<1>1. Init => Witnessed
  BY DEF Init, Witnessed
<1>2. SdkTypeOK /\ Witnessed /\ [Next]_vars => Witnessed'
  <2> SUFFICES ASSUME SdkTypeOK, Witnessed, [Next]_vars,
                      marker' \/ (\E b \in Builds : pc'[b] = "marker")
               PROVE  AllComplete'
    BY DEF Witnessed
  <2>1. AllComplete
    <3>1. CASE marker'
      <4>1. marker \/ \E b \in Builds : WriteMarker(b)
        BY <3>1 DEF Next, Step, vars, Check, CheckTools, EmptyTmp, Download, Clear, Open,
                    Close, Unpack, Licenses, InstallPackage, InstallDone, Kill, Fail
      <4>2. QED  BY <4>1 DEF Witnessed, WriteMarker
    <3>2. CASE \E b \in Builds : pc'[b] = "marker"
      BY <3>2, ReachesMarker DEF Witnessed
    <3>3. QED  BY <3>1, <3>2
  <2>2. QED  BY <2>1, CompleteStays DEF AllComplete
<1>3. Witnessed => InstalledIsComplete
  BY DEF Witnessed, AllComplete, InstalledIsComplete, Installed
<1>4. QED  BY <1>1, <1>2, <1>3, SdkTypeCorrect, PTL DEF Spec

-----------------------------------------------------------------------------
(***************************************************************************)
(* The launcher is there, files it needs are not, and nobody is about to   *)
(* write the marker.                                                       *)
(***************************************************************************)
Stuck == Torn /\ ~Installed /\ \A b \in Builds : pc[b] \notin {"install", "marker"}

LEMMA StuckStays ==
  ASSUME SdkTypeOK, Stuck, [Next]_vars
  PROVE  Stuck'
<1> USE DEF SdkTypeOK, Goto, Stuck, Torn
<1>1. ASSUME NEW b \in Builds, Check(b) \/ CheckTools(b) \/ Licenses(b) \/ Kill(b) \/ Fail(b)
      PROVE  Stuck'
  BY <1>1 DEF Check, CheckTools, Licenses, Kill, Fail, Installed
<1>2. CASE UNCHANGED vars
  BY <1>2 DEF vars, Installed
<1>3. QED
  BY <1>1, <1>2 DEF Next, Step, EmptyTmp, Download, Clear, Open, Close, Unpack,
                    InstallPackage, InstallDone, WriteMarker

\* A launcher whose other files are missing is never repaired: the test for it
\* (build.gradle.kts:276) keeps every later invocation from fetching the tools
\* again, so none of them, however many there are, installs the SDK.
THEOREM TornIsFinal == Spec => [](Stuck => [](Stuck /\ ~Installed))
<1>1. SdkTypeOK /\ Stuck /\ [Next]_vars => Stuck'
  BY StuckStays
<1>2. Stuck => ~Installed
  BY DEF Stuck
<1>3. QED  BY <1>1, <1>2, SdkTypeCorrect, PTL DEF Spec
=============================================================================
