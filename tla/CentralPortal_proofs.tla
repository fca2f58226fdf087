------------------------ MODULE CentralPortal_proofs ------------------------
(***************************************************************************)
(* What a run of publishToCentralPortal may say of its own outcome, and    *)
(* what it uploads, for every number of publications, versions, revisions, *)
(* deployments and status checks.                                          *)
(***************************************************************************)
EXTENDS CentralPortal, TLAPS

States == {"PENDING", "VALIDATED", "PUBLISHED", "FAILED"}

Deployment == [version : Versions, type : Types, content : Contents, state : States]

TypeInv == PortalTypeOK /\ portal \in Seq(Deployment)

\* The source does not change under a run, which is about what is there.
RunIsOfNow ==
  pc # "idle" => run.version = version /\ run.revision = revision /\ run.outcome = "none"

\* What is about to be uploaded was staged by this run or is the same.
Staged(content, v, r) == \A p \in Publications : content[v][p] = r

BundleIsOfNow == pc = "upload" => Staged(bundle, version, revision)

\* The deployment that a run looks at is the one it uploaded itself.
OwnDeployment ==
  /\ pc = "poll" => run.id # 0
  /\ run.id # 0 =>
       /\ run.id \in DOMAIN portal
       /\ portal[run.id].version = run.version
       /\ Staged(portal[run.id].content, run.version, run.revision)

\* Central has the deployment that the portal says it published.
PublishedIsCentral ==
  \A d \in DOMAIN portal : portal[d].state = "PUBLISHED" => central[portal[d].version] = d

\* A run that succeeded has seen its deployment published.
SuccessSeen ==
  run.outcome = "success" /\ run.type = "AUTOMATIC" =>
    run.id # 0 /\ portal[run.id].state = "PUBLISHED"

RunInv ==
  /\ RunIsOfNow
  /\ BundleIsOfNow
  /\ OwnDeployment
  /\ PublishedIsCentral
  /\ SuccessSeen
  /\ BundlesAreWhole

-----------------------------------------------------------------------------
\* The deployments.

\* The portal takes a bundle in: the deployments before it are as they were.
LEMMA Accepting ==
  ASSUME portal \in Seq(Deployment), NEW e \in Deployment, NEW q, q = Append(portal, e)
  PROVE  /\ q \in Seq(Deployment)
         /\ Len(q) = Len(portal) + 1 /\ Len(q) \in DOMAIN q
         /\ DOMAIN q = DOMAIN portal \cup {Len(q)}
         /\ Len(q) \notin DOMAIN portal
         /\ q[Len(q)] = e
         /\ \A d \in DOMAIN portal : q[d] = portal[d]
<1>1. q \in Seq(Deployment) /\ Len(q) = Len(portal) + 1 /\ Len(portal) \in Nat
  OBVIOUS
<1>2. DOMAIN q = 1..Len(q) /\ DOMAIN portal = 1..Len(portal)
  BY <1>1
<1>3. DOMAIN q = DOMAIN portal \cup {Len(q)} /\ Len(q) \notin DOMAIN portal
  BY <1>1, <1>2
<1>4. q[Len(q)] = e /\ \A d \in 1..Len(portal) : q[d] = portal[d]
  BY <1>1
<1>5. QED  BY <1>1, <1>2, <1>3, <1>4

\* It handles a deployment: only the state of that one changes.
LEMMA Handling ==
  ASSUME portal \in Seq(Deployment), NEW d \in DOMAIN portal, NEW state \in States,
         NEW q, q = [portal EXCEPT ![d].state = state]
  PROVE  /\ q \in Seq(Deployment)
         /\ Len(q) = Len(portal) /\ DOMAIN q = DOMAIN portal
         /\ q[d].state = state
         /\ \A c \in DOMAIN portal :
              /\ q[c].version = portal[c].version
              /\ q[c].type = portal[c].type
              /\ q[c].content = portal[c].content
              /\ c # d => q[c] = portal[c]
<1> DEFINE e == [portal[d] EXCEPT !.state = state]
<1>1. portal[d] \in Deployment
  OBVIOUS
<1>2. /\ e \in Deployment /\ e.state = state /\ e.version = portal[d].version
      /\ e.type = portal[d].type /\ e.content = portal[d].content
  BY <1>1 DEF Deployment
<1> HIDE DEF e
<1>3. q = [portal EXCEPT ![d] = e]
  BY DEF e
<1>4. q \in Seq(Deployment) /\ Len(q) = Len(portal) /\ DOMAIN q = DOMAIN portal
  BY <1>2, <1>3
<1>5. q[d] = e /\ \A c \in DOMAIN portal : c # d => q[c] = portal[c]
  BY <1>3
<1>6. QED  BY <1>2, <1>4, <1>5

LEMMA DeploymentTyped ==
  ASSUME portal \in Seq(Deployment), NEW d \in DOMAIN portal
  PROVE  /\ portal[d] \in Deployment
         /\ portal[d].version \in Versions /\ portal[d].type \in Types
         /\ portal[d].content \in Contents /\ portal[d].state \in States
<1>1. portal[d] \in Deployment
  OBVIOUS
<1>2. QED  BY <1>1 DEF Deployment

-----------------------------------------------------------------------------
\* Typing.

LEMMA TypeInvInit == Init => TypeInv
<1> SUFFICES ASSUME Init PROVE TypeInv
  OBVIOUS
<1>1. 1 \in Versions /\ 1 \in Revisions
  BY BoundsAssumption DEF Versions, Revisions
<1>2. 0 \in 0..MaxDeployments /\ 0 \in 0..statusAttempts /\ 0 <= MaxDeployments
  BY BoundsAssumption, AttemptsAssumption
<1>3. Nothing \in Contents
  BY DEF Nothing, Contents
<1>4. portal = <<>> /\ portal \in Seq(Deployment) /\ DOMAIN portal = {} /\ Len(portal) = 0
  BY DEF Init
<1>5. run \in [version : Versions, revision : Revisions, type : Types,
               id : 0..MaxDeployments, outcome : {"none", "success", "failure"}]
  BY <1>1, <1>2 DEF Init, Types
<1>6. central \in [Versions -> 0..MaxDeployments]
  BY <1>2 DEF Init
<1>7. QED  BY <1>1, <1>2, <1>3, <1>4, <1>5, <1>6 DEF Init, TypeInv, PortalTypeOK

RunType ==
  [version : Versions, revision : Revisions, type : Types,
   id : 0..MaxDeployments, outcome : {"none", "success", "failure"}]

\* A run that stops only gets an outcome.
LEMMA Stopping ==
  ASSUME run \in RunType, NEW outcome \in {"success", "failure"}, Stop(outcome)
  PROVE  /\ run' \in RunType
         /\ run'.version = run.version /\ run'.revision = run.revision
         /\ run'.type = run.type /\ run'.id = run.id /\ run'.outcome = outcome
         /\ pc' = "idle"
BY DEF Stop, RunType

LEMMA TypeInvNext == TypeInv /\ [Next]_vars => TypeInv'
<1> SUFFICES ASSUME TypeInv, [Next]_vars PROVE TypeInv'
  OBVIOUS
<1> USE DEF TypeInv, PortalTypeOK
<1>1. run \in RunType
  BY DEF RunType
<1>2. portal' = portal => (\A d \in DOMAIN portal' : portal'[d] \in Deployment)
  BY DeploymentTyped
<1>3. ASSUME NEW type \in Types, Start(type) PROVE TypeInv'
  <2>1. run' \in RunType
    BY <1>3, BoundsAssumption DEF Start, RunType
  <2>2. QED  BY <1>3, <2>1 DEF Start, RunType
<1>4. ASSUME NEW p \in Publications, Stage(p) PROVE TypeInv'
  <2>1. staged' \in Contents
    BY <1>4 DEF Stage, Contents
  <2>2. QED  BY <1>4, <2>1 DEF Stage
<1>5. CASE Bundle
  BY <1>5 DEF Bundle
<1>6. CASE Upload
  <2>1. attempt' \in 0..statusAttempts
    BY <1>6, AttemptsAssumption DEF Upload
  <2>2. UNCHANGED <<version, revision, staged, bundle, central>>
    BY <1>6 DEF Upload
  <2>3. CASE portal' = portal /\ Stop("failure")
    BY <1>1, <2>1, <2>2, <2>3, Stopping DEF RunType
  <2>4. ASSUME Len(portal) < MaxDeployments,
               portal' = Append(portal, [version |-> version, type |-> run.type,
                                         content |-> bundle, state |-> "PENDING"]),
               \/ pc' = "poll" /\ run' = [run EXCEPT !.id = Len(portal')]
               \/ Stop("failure")
        PROVE  TypeInv'
    <3> DEFINE e == [version |-> version, type |-> run.type,
                     content |-> bundle, state |-> "PENDING"]
    <3>1. e \in Deployment
      BY <1>1 DEF Deployment, States, RunType
    <3> HIDE DEF e
    <3>2. portal' = Append(portal, e)
      BY <2>4 DEF e
    <3>3. portal' \in Seq(Deployment) /\ Len(portal') = Len(portal) + 1
      BY <3>1, <3>2, Accepting
    <3>4. Len(portal) \in Nat /\ MaxDeployments \in Nat
      BY BoundsAssumption
    <3>5. Len(portal') \in 0..MaxDeployments /\ Len(portal') <= MaxDeployments
      BY <2>4, <3>3, <3>4
    <3>6. run' \in RunType /\ pc' \in {"idle", "poll"}
      <4>1. CASE pc' = "poll" /\ run' = [run EXCEPT !.id = Len(portal')]
        BY <1>1, <3>5, <4>1 DEF RunType
      <4>2. CASE Stop("failure")
        BY <1>1, <4>2, Stopping
      <4>3. QED  BY <2>4, <4>1, <4>2
    <3>7. \A d \in DOMAIN portal' : portal'[d] \in Deployment
      BY <3>3
    <3>8. QED
      BY <2>1, <2>2, <3>3, <3>5, <3>6, <3>7 DEF RunType, Deployment, States
  <2>5. QED  BY <1>6, <2>3, <2>4 DEF Upload
<1>7. CASE Poll
  <2>1. attempt' \in 0..statusAttempts
    BY <1>7, AttemptsAssumption DEF Poll
  <2>2. run' \in RunType /\ pc' \in {"idle", pc}
    BY <1>1, <1>7, Stopping DEF Poll, Heed
  <2>3. QED  BY <1>7, <2>1, <2>2 DEF Poll, RunType
<1>8. CASE GiveUp \/ Fail
  <2>1. Stop("failure") /\ UNCHANGED <<version, revision, staged, bundle, attempt, portal, central>>
    BY <1>8 DEF GiveUp, Fail
  <2>2. QED  BY <1>1, <2>1, Stopping DEF RunType
<1>9. ASSUME NEW d \in DOMAIN portal, Validate(d) \/ Publish(d) PROVE TypeInv'
  <2>1. PICK state \in States : portal' = [portal EXCEPT ![d].state = state]
    BY <1>9 DEF Validate, Publish, States
  <2>2. portal' \in Seq(Deployment) /\ Len(portal') = Len(portal)
    <3> HIDE DEF PortalTypeOK
    <3>1. portal \in Seq(Deployment)
      OBVIOUS
    <3> HIDE DEF TypeInv
    <3>2. QED  BY <1>9, <2>1, <3>1, Handling
  <2>3. \A c \in DOMAIN portal' : portal'[c] \in Deployment
    BY <2>2
  <2>4. d \in 0..MaxDeployments
    BY BoundsAssumption
  <2>5. central' \in [Versions -> 0..MaxDeployments]
    BY <1>9, <2>4, DeploymentTyped DEF Validate, Publish
  <2>6. UNCHANGED <<version, revision, staged, bundle, pc, run, attempt>>
    BY <1>9 DEF Validate, Publish
  <2>7. QED  BY <2>2, <2>3, <2>5, <2>6 DEF Deployment, States
<1>10. CASE Change
  <2>1. revision' \in Revisions /\ version' \in Versions
    BY <1>10, BoundsAssumption DEF Change, Revisions
  <2>2. QED  BY <1>10, <2>1 DEF Change
<1>11. CASE UNCHANGED vars
  BY <1>11 DEF vars
<1>12. QED
  BY <1>3, <1>4, <1>5, <1>6, <1>7, <1>8, <1>9, <1>10, <1>11 DEF Next, Task

\* The task, the bundles and the portal hold what their types say; a run makes
\* no more status checks than it is allowed (build.gradle.kts:823-956).
THEOREM PortalTypeCorrect == Spec => []PortalTypeOK
<1>1. TypeInv => PortalTypeOK
  BY DEF TypeInv
<1>2. QED  BY <1>1, TypeInvInit, TypeInvNext, PTL DEF Spec
-----------------------------------------------------------------------------
\* What a run knows of its own deployment.

LEMMA RunInvInit == Init => RunInv
<1> SUFFICES ASSUME Init PROVE RunInv
  OBVIOUS
<1>1. DOMAIN portal = {}
  BY DEF Init
<1>2. pc = "idle" /\ run.id = 0 /\ run.outcome = "none"
  BY DEF Init
<1>3. QED
  BY <1>1, <1>2 DEF RunInv, RunIsOfNow, BundleIsOfNow, OwnDeployment, PublishedIsCentral,
                    SuccessSeen, BundlesAreWhole

\* A run that ends without success leaves what was uploaded as it is.
LEMMA StoppingKeeps ==
  ASSUME TypeInv, RunInv, Stop("failure"),
         UNCHANGED <<version, revision, bundle, portal, central>>
  PROVE  RunInv'
<1>1. run \in RunType
  BY DEF TypeInv, PortalTypeOK, RunType
<1>2. /\ run'.version = run.version /\ run'.revision = run.revision
      /\ run'.type = run.type /\ run'.id = run.id /\ run'.outcome = "failure"
      /\ pc' = "idle"
  BY <1>1, Stopping
<1>3. QED
  BY <1>2 DEF RunInv, RunIsOfNow, BundleIsOfNow, OwnDeployment, Staged, PublishedIsCentral,
              SuccessSeen, BundlesAreWhole

\* The portal accepts the bundle that the run at work made.
LEMMA AcceptedKeeps ==
  ASSUME TypeInv, RunInv, pc = "upload",
         portal' = Append(portal, [version |-> version, type |-> run.type,
                                   content |-> bundle, state |-> "PENDING"]),
         \/ pc' = "poll" /\ run' = [run EXCEPT !.id = Len(portal')]
         \/ Stop("failure"),
         UNCHANGED <<version, revision, bundle, central>>
  PROVE  RunInv'
<1> DEFINE e == [version |-> version, type |-> run.type,
                 content |-> bundle, state |-> "PENDING"]
           d == Len(portal')
<1>1. run \in RunType /\ revision \in Revisions /\ portal \in Seq(Deployment)
  BY DEF TypeInv, PortalTypeOK, RunType
<1>2. /\ e \in Deployment /\ e.version = version
      /\ e.content = bundle /\ e.state = "PENDING"
  BY <1>1 DEF Deployment, States, RunType, TypeInv, PortalTypeOK
<1> HIDE DEF e
<1>3. portal' = Append(portal, e)
  BY DEF e
<1>4. /\ DOMAIN portal' = DOMAIN portal \cup {d}
      /\ d \in DOMAIN portal' /\ d \notin DOMAIN portal
      /\ portal'[d] = e
      /\ \A c \in DOMAIN portal : portal'[c] = portal[c]
  BY <1>1, <1>2, <1>3, Accepting
<1>5. d # 0
  BY <1>1, <1>2, <1>3, Accepting
<1> HIDE DEF d
<1>6. run.version = version /\ run.revision = revision /\ run.outcome = "none"
  BY DEF RunInv, RunIsOfNow
<1>7. Staged(bundle, version, revision)
  BY DEF RunInv, BundleIsOfNow
<1>8. PublishedIsCentral'
  BY <1>2, <1>4 DEF RunInv, PublishedIsCentral
<1>9. BundlesAreWhole'
  <2>1. \A p \in Publications : portal'[d].content[portal'[d].version][p] = revision
    BY <1>2, <1>4, <1>7 DEF Staged
  <2>2. QED  BY <1>1, <1>4, <2>1 DEF RunInv, BundlesAreWhole
<1>10. CASE pc' = "poll" /\ run' = [run EXCEPT !.id = d]
  <2>1. /\ run'.id = d /\ run'.version = run.version /\ run'.revision = run.revision
        /\ run'.outcome = run.outcome
    BY <1>1, <1>10 DEF RunType
  <2>2. OwnDeployment'
    BY <1>2, <1>4, <1>5, <1>6, <1>7, <2>1 DEF OwnDeployment, Staged
  <2>3. QED
    BY <1>6, <1>8, <1>9, <1>10, <2>1, <2>2
       DEF RunInv, RunIsOfNow, BundleIsOfNow, SuccessSeen
<1>11. CASE Stop("failure")
  <2>1. /\ run'.version = run.version /\ run'.revision = run.revision
        /\ run'.id = run.id /\ run'.outcome = "failure" /\ pc' = "idle"
    BY <1>1, <1>11, Stopping
  <2>2. OwnDeployment'
    BY <1>4, <2>1 DEF RunInv, OwnDeployment, Staged
  <2>3. QED
    BY <1>8, <1>9, <2>1, <2>2 DEF RunInv, RunIsOfNow, BundleIsOfNow, SuccessSeen
<1>12. QED  BY <1>10, <1>11 DEF d

\* One status check.
LEMMA PollKeeps ==
  ASSUME TypeInv, RunInv, Poll
  PROVE  RunInv'
<1>1. run \in RunType
  BY DEF TypeInv, PortalTypeOK, RunType
<1>2. UNCHANGED <<version, revision, staged, bundle, portal, central>>
  BY DEF Poll
<1>3. CASE Stop("failure")
  BY <1>2, <1>3, StoppingKeeps
<1>4. CASE UNCHANGED <<pc, run>>
  BY <1>2, <1>4 DEF RunInv, RunIsOfNow, BundleIsOfNow, OwnDeployment, Staged,
                    PublishedIsCentral, SuccessSeen, BundlesAreWhole
<1>5. CASE portal[run.id].state \in Terminal(run.type) /\ Stop("success")
  <2>1. /\ run'.version = run.version /\ run'.revision = run.revision
        /\ run'.type = run.type /\ run'.id = run.id /\ pc' = "idle"
    BY <1>1, <1>5, Stopping
  <2>2. run.id # 0
    BY DEF Poll, RunInv, OwnDeployment
  <2>3. SuccessSeen'
    BY <1>2, <1>5, <2>1, <2>2 DEF SuccessSeen, Terminal
  <2>4. QED
    BY <1>2, <2>1, <2>3 DEF RunInv, RunIsOfNow, BundleIsOfNow, OwnDeployment, Staged,
                            PublishedIsCentral, BundlesAreWhole
<1>6. QED  BY <1>3, <1>4, <1>5 DEF Poll, Heed

\* The portal handles a deployment, the run's or another.
LEMMA HandledKeeps ==
  ASSUME TypeInv, RunInv, NEW d \in DOMAIN portal, Validate(d) \/ Publish(d)
  PROVE  RunInv'
<1>1. portal \in Seq(Deployment)
  BY DEF TypeInv
<1>2. UNCHANGED <<version, revision, staged, bundle, pc, run, attempt>>
  BY DEF Validate, Publish
<1>3. PICK state \in States :
        /\ portal' = [portal EXCEPT ![d].state = state]
        /\ \/ state # "PUBLISHED" /\ central' = central
           \/ /\ central[portal[d].version] = 0
              /\ central' = [central EXCEPT ![portal[d].version] = d]
  BY DEF Validate, Publish, States
<1>4. /\ DOMAIN portal' = DOMAIN portal
      /\ portal'[d].state = state
      /\ \A c \in DOMAIN portal :
           /\ portal'[c].version = portal[c].version
           /\ portal'[c].content = portal[c].content
           /\ c # d => portal'[c] = portal[c]
  BY <1>1, <1>3, Handling
<1>5. portal[d].state # "PUBLISHED"
  BY DEF Validate, Publish
<1>6. d # 0 /\ 0 \notin DOMAIN portal
  BY <1>1
<1>7. central \in [Versions -> 0..MaxDeployments] /\ portal[d].version \in Versions
  BY <1>1, DeploymentTyped DEF TypeInv, PortalTypeOK
<1>8. PublishedIsCentral'
  <2> SUFFICES ASSUME NEW c \in DOMAIN portal, portal'[c].state = "PUBLISHED"
               PROVE  central'[portal[c].version] = c
    BY <1>4 DEF PublishedIsCentral
  <2>1. CASE c = d
    BY <1>3, <1>4, <1>7, <2>1
  <2>2. CASE c # d
    <3>1. central[portal[c].version] = c /\ c # 0
      BY <1>4, <1>6, <2>2 DEF RunInv, PublishedIsCentral
    <3>2. portal[c].version \in Versions
      BY <1>1, DeploymentTyped
    <3>3. QED  BY <1>3, <1>7, <3>1, <3>2
  <2>3. QED  BY <2>1, <2>2
<1>9. BundlesAreWhole'
  BY <1>4 DEF RunInv, BundlesAreWhole
<1>10. OwnDeployment'
  BY <1>2, <1>4 DEF RunInv, OwnDeployment, Staged
<1>11. SuccessSeen'
  BY <1>2, <1>4, <1>5 DEF RunInv, SuccessSeen, OwnDeployment
<1>12. QED
  BY <1>2, <1>8, <1>9, <1>10, <1>11 DEF RunInv, RunIsOfNow, BundleIsOfNow

LEMMA RunInvNext == TypeInv /\ RunInv /\ [Next]_vars => RunInv'
<1> SUFFICES ASSUME TypeInv, RunInv, [Next]_vars PROVE RunInv'
  OBVIOUS
<1>1. ASSUME NEW type \in Types, Start(type) PROVE RunInv'
  BY <1>1 DEF Start, RunInv, RunIsOfNow, BundleIsOfNow, OwnDeployment, PublishedIsCentral,
              SuccessSeen, BundlesAreWhole
<1>2. ASSUME NEW p \in Publications, Stage(p) PROVE RunInv'
  BY <1>2 DEF Stage, RunInv, RunIsOfNow, BundleIsOfNow, OwnDeployment, Staged,
              PublishedIsCentral, SuccessSeen, BundlesAreWhole
<1>3. CASE Bundle
  BY <1>3 DEF Bundle, RunInv, RunIsOfNow, BundleIsOfNow, OwnDeployment, Staged,
              PublishedIsCentral, SuccessSeen, BundlesAreWhole
<1>4. CASE Upload
  BY <1>4, AcceptedKeeps, StoppingKeeps DEF Upload
<1>5. CASE Poll
  BY <1>5, PollKeeps
<1>6. CASE GiveUp \/ Fail
  BY <1>6, StoppingKeeps DEF GiveUp, Fail
<1>7. ASSUME NEW d \in DOMAIN portal, Validate(d) \/ Publish(d) PROVE RunInv'
  BY <1>7, HandledKeeps
<1>8. CASE Change
  BY <1>8 DEF Change, RunInv, RunIsOfNow, BundleIsOfNow, OwnDeployment, Staged,
              PublishedIsCentral, SuccessSeen, BundlesAreWhole
<1>9. CASE UNCHANGED vars
  BY <1>9 DEF vars, RunInv, RunIsOfNow, BundleIsOfNow, OwnDeployment, Staged,
              PublishedIsCentral, SuccessSeen, BundlesAreWhole
<1>10. QED
  BY <1>1, <1>2, <1>3, <1>4, <1>5, <1>6, <1>7, <1>8, <1>9 DEF Next, Task

LEMMA RunInvAlways == Spec => [](TypeInv /\ RunInv)
BY TypeInvInit, TypeInvNext, RunInvInit, RunInvNext, PTL DEF Spec

\* An AUTOMATIC run that reports success has published its own artifacts, all
\* of them, whatever became of earlier uploads of the same version
\* (build.gradle.kts:896-949).
THEOREM SuccessCorrect == Spec => []SuccessMeansReleased
<1>1. TypeInv /\ RunInv => SuccessMeansReleased
  <2> SUFFICES ASSUME TypeInv, RunInv, run.outcome = "success", run.type = "AUTOMATIC"
               PROVE  /\ central[run.version] # 0
                      /\ \A p \in Publications :
                           portal[central[run.version]].content[run.version][p] = run.revision
    BY DEF SuccessMeansReleased
  <2>1. run.id # 0 /\ portal[run.id].state = "PUBLISHED"
    BY DEF RunInv, SuccessSeen
  <2>2. central[run.version] = run.id
    BY <2>1 DEF RunInv, OwnDeployment, PublishedIsCentral
  <2>3. QED  BY <2>1, <2>2 DEF RunInv, OwnDeployment, Staged
<1>2. QED  BY <1>1, RunInvAlways, PTL

\* Every bundle uploaded has all the publications of its version, from one
\* revision, whatever runs that ended early left in staging-deploy
\* (build.gradle.kts:823-841).
THEOREM BundlesCorrect == Spec => []BundlesAreWhole
<1>1. RunInv => BundlesAreWhole
  BY DEF RunInv
<1>2. QED  BY <1>1, RunInvAlways, PTL
=============================================================================
