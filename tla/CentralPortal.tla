---------------------------- MODULE CentralPortal ----------------------------
(***************************************************************************)
(* publishToCentralPortal of build.gradle.kts: runs of the task, one at a  *)
(* time in one checkout, against a Central Portal that handles what they   *)
(* upload in its own time.  Staging the publications, signatures and       *)
(* checksums included, fills build/staging-deploy, which nothing empties.  *)
(*                                                                         *)
(* Between runs the source may change, and with it the version.  An upload *)
(* may be accepted and its answer lost; any request may fail.              *)
(***************************************************************************)
EXTENDS Naturals, Sequences

CONSTANTS
  Publications,    \* the Maven publications of the project
  MaxVersion,      \* bound: versions 1..MaxVersion
  MaxRevision,     \* bound: revisions of the source 1..MaxRevision
  MaxDeployments,  \* bound: uploads the portal accepts
  statusAttempts   \* centralPublishStatusAttempts

ASSUME BoundsAssumption ==
  {MaxVersion, MaxRevision, MaxDeployments} \subseteq Nat \ {0}
ASSUME AttemptsAssumption == statusAttempts \in Nat

VARIABLES
  version,    \* project.version
  revision,   \* the revision of the source in the checkout
  staged,     \* staged[v][p]: the revision p was staged from as v, 0 if not
  bundle,     \* the same, in the zip made last
  pc,         \* where the task is
  run,        \* what the current or last run is about, and how it ended
  attempt,    \* status checks made
  portal,     \* the deployments accepted, in order; the index is the id
  central     \* central[v]: the id of the deployment published as v, 0 if none

vars == <<version, revision, staged, bundle, pc, run, attempt, portal, central>>

Versions == 1..MaxVersion
Revisions == 1..MaxRevision
Types == {"AUTOMATIC", "USER_MANAGED"}
Contents == [Versions -> [Publications -> {0} \cup Revisions]]

PortalTypeOK ==
  /\ version \in Versions
  /\ revision \in Revisions
  /\ staged \in Contents /\ bundle \in Contents
  /\ pc \in {"idle", "stage", "bundle", "upload", "poll"}
  /\ run \in [version : Versions, revision : Revisions, type : Types,
              id : 0..MaxDeployments, outcome : {"none", "success", "failure"}]
  /\ attempt \in 0..statusAttempts
  /\ Len(portal) <= MaxDeployments
  /\ \A d \in DOMAIN portal :
       portal[d] \in [version : Versions, type : Types, content : Contents,
                      state : {"PENDING", "VALIDATED", "PUBLISHED", "FAILED"}]
  /\ central \in [Versions -> 0..MaxDeployments]

-----------------------------------------------------------------------------
\* The task.

Stop(outcome) ==
  /\ pc' = "idle"
  /\ run' = [run EXCEPT !.outcome = outcome]

Start(type) ==
  /\ pc = "idle"
  /\ pc' = "stage"
  /\ run' = [version |-> version, revision |-> revision, type |-> type,
             id |-> 0, outcome |-> "none"]
  /\ UNCHANGED <<version, revision, staged, bundle, attempt, portal, central>>

\* One PublishToMavenRepository task, after the Sign tasks.
Stage(p) ==
  /\ pc = "stage"
  /\ staged[version][p] # revision
  /\ staged' = [staged EXCEPT ![version][p] = revision]
  /\ UNCHANGED <<version, revision, bundle, pc, run, attempt, portal, central>>

\* Mutant: the bundle does not depend on the tasks that stage.
EagerBundle ==
  /\ pc = "stage"
  /\ bundle' = staged
  /\ pc' = "upload"
  /\ UNCHANGED <<version, revision, staged, run, attempt, portal, central>>

\* centralPortalBundle: all of staging-deploy, once everything is staged.
Bundle ==
  /\ pc = "stage"
  /\ \A p \in Publications : staged[version][p] = revision
  /\ bundle' = staged
  /\ pc' = "upload"
  /\ UNCHANGED <<version, revision, staged, run, attempt, portal, central>>

\* The portal accepts the bundle and answers with the id; it accepts it and
\* the answer is lost; or it refuses it.
Upload ==
  /\ pc = "upload"
  /\ \/ /\ Len(portal) < MaxDeployments
        /\ portal' = Append(portal, [version |-> version, type |-> run.type,
                                     content |-> bundle, state |-> "PENDING"])
        /\ \/ /\ pc' = "poll"
              /\ run' = [run EXCEPT !.id = Len(portal')]
           \/ Stop("failure")
     \/ Stop("failure") /\ UNCHANGED portal
  /\ attempt' = 0
  /\ UNCHANGED <<version, revision, staged, bundle, central>>

\* terminalStates
Terminal(type) ==
  IF type = "AUTOMATIC" THEN {"PUBLISHED"} ELSE {"VALIDATED", "PUBLISHED"}

\* when (deploymentState)
Heed(state) ==
  IF state = "FAILED" THEN Stop("failure")
  ELSE IF state \in Terminal(run.type) THEN Stop("success")
  ELSE UNCHANGED <<pc, run>>

\* Mutant: checks are repeated without being counted.
UncountedPoll ==
  /\ pc = "poll"
  /\ Heed(portal[run.id].state)
  /\ UNCHANGED <<version, revision, staged, bundle, attempt, portal, central>>

\* Mutant: one check too many.
ExtraPoll ==
  /\ pc = "poll"
  /\ attempt <= statusAttempts
  /\ attempt' = attempt + 1
  /\ Heed(portal[run.id].state)
  /\ UNCHANGED <<version, revision, staged, bundle, portal, central>>

\* Mutant: the state of whatever was deployed for the version is looked at.
PollByVersion ==
  /\ pc = "poll"
  /\ attempt < statusAttempts
  /\ attempt' = attempt + 1
  /\ \E d \in DOMAIN portal :
       /\ portal[d].version = run.version
       /\ Heed(portal[d].state)
  /\ UNCHANGED <<version, revision, staged, bundle, portal, central>>

\* One pass of repeat(statusAttempts), the sleep at its end included.
Poll ==
  /\ pc = "poll"
  /\ attempt < statusAttempts
  /\ attempt' = attempt + 1
  /\ Heed(portal[run.id].state)
  /\ UNCHANGED <<version, revision, staged, bundle, portal, central>>

\* "did not reach ... after $statusAttempts checks"
GiveUp ==
  /\ pc = "poll"
  /\ attempt = statusAttempts
  /\ Stop("failure")
  /\ UNCHANGED <<version, revision, staged, bundle, attempt, portal, central>>

\* A task fails, a request is refused or gets no answer, or the run is killed.
Fail ==
  /\ pc # "idle"
  /\ Stop("failure")
  /\ UNCHANGED <<version, revision, staged, bundle, attempt, portal, central>>

-----------------------------------------------------------------------------
\* The Central Portal and the developer.

Validate(d) ==
  /\ portal[d].state = "PENDING"
  /\ \E verdict \in {"VALIDATED", "FAILED"} :
       portal' = [portal EXCEPT ![d].state = verdict]
  /\ UNCHANGED <<version, revision, staged, bundle, pc, run, attempt, central>>

\* A version is published once: another deployment of it fails.  One that is
\* USER_MANAGED waits for a release in the Portal UI, which may come or not.
Publish(d) ==
  /\ portal[d].state = "VALIDATED"
  /\ LET v == portal[d].version IN
       IF central[v] = 0
         THEN /\ central' = [central EXCEPT ![v] = d]
              /\ portal' = [portal EXCEPT ![d].state = "PUBLISHED"]
         ELSE /\ portal[d].type = "AUTOMATIC"
              /\ portal' = [portal EXCEPT ![d].state = "FAILED"]
              /\ UNCHANGED central
  /\ UNCHANGED <<version, revision, staged, bundle, pc, run, attempt>>

\* The next revision, as the same version or as the next one.
Change ==
  /\ pc = "idle"
  /\ revision < MaxRevision
  /\ revision' = revision + 1
  /\ version' \in {version, version + 1} \cap Versions
  /\ UNCHANGED <<staged, bundle, pc, run, attempt, portal, central>>

-----------------------------------------------------------------------------
Nothing == [v \in Versions |-> [p \in Publications |-> 0]]

Init ==
  /\ version = 1 /\ revision = 1
  /\ staged = Nothing /\ bundle = Nothing
  /\ pc = "idle"
  /\ run = [version |-> 1, revision |-> 1, type |-> "USER_MANAGED",
            id |-> 0, outcome |-> "none"]
  /\ attempt = 0
  /\ portal = <<>>
  /\ central = [v \in Versions |-> 0]

Task ==
  \/ \E p \in Publications : Stage(p)
  \/ Bundle \/ Upload \/ Poll \/ GiveUp

Next ==
  \/ \E type \in Types : Start(type)
  \/ Task \/ Fail
  \/ \E d \in DOMAIN portal : Validate(d) \/ Publish(d)
  \/ Change

Spec == Init /\ [][Next]_vars

\* A run goes on.  For its requests, which have no timeout of their own, this
\* takes a portal that answers or a connection that breaks.
FairSpec == Spec /\ WF_vars(Task)

-----------------------------------------------------------------------------
\* Properties.

\* An AUTOMATIC run that reports success has published what it built: every
\* publication, from its own revision, and not what an earlier run uploaded
\* for the same version and lost sight of (build.gradle.kts:896-949).
SuccessMeansReleased ==
  run.outcome = "success" /\ run.type = "AUTOMATIC" =>
    LET d == central[run.version] IN
      /\ d # 0
      /\ \A p \in Publications : portal[d].content[run.version][p] = run.revision

\* Every bundle uploaded holds all the publications of its version, staged
\* from one revision, though staging-deploy keeps what runs that failed
\* halfway, from other revisions, left (build.gradle.kts:823-841).
BundlesAreWhole ==
  \A d \in DOMAIN portal :
    \E r \in Revisions : \A p \in Publications :
      portal[d].content[portal[d].version][p] = r

\* Every run ends, whatever the portal makes of the deployment
\* (build.gradle.kts:917-954).
EveryRunEnds == []<>(pc = "idle")
=============================================================================
