---------------------------- MODULE ImageBuilds ----------------------------
(***************************************************************************)
(* Builds of the base images (services/imageBuildJob.service.ts): a queue  *)
(* in memory runs one job at a time against Docker, through the            *)
(* provisioner, and the default tag's build also moves the alias :latest,  *)
(* which every site is launched from by default.                           *)
(*                                                                         *)
(* What Docker builds for a job is known by the job.  Docker does not stop *)
(* a build because the answer has nobody to go to, so an image may change  *)
(* after its job has failed.                                               *)
(***************************************************************************)
EXTENDS Sequences, SequencesExt

CONSTANTS
    Builds,         \* rows of image_builds
    Tags,           \* base image tags
    DefaultTag,     \* the tag of the default PHP and WordPress pair
    NoBuild

ASSUME DefaultTagAssumption == DefaultTag \in Tags
ASSUME NoBuildAssumption == NoBuild \notin Builds

VARIABLES
    build,          \* [Builds -> the row]
    queue,          \* jobs whose turn has not come
    running,        \* the job runBuildJob is at, and what it waits for
    docker,         \* builds Docker goes on with although nobody waits
    image,          \* [Tags -> the build the tag names]
    latest,         \* the build the alias :latest names
    astray          \* the alias was left behind, or names an image no more (history)

buildVars == <<build, queue, running, docker, image, latest, astray>>

BuildStatus == {"absent", "queued", "building", "success", "failed"}
Resting == [id |-> NoBuild, step |-> "rest"]

BuildsTypeOK ==
    /\ build \in [Builds -> [status: BuildStatus, tag: Tags]]
    /\ queue \in Seq(Builds)
    /\ running \in [id: Builds \cup {NoBuild}, step: {"rest", "build", "tag"}]
    /\ docker \subseteq Builds
    /\ image \in [Tags -> Builds \cup {NoBuild}]
    /\ latest \in Builds \cup {NoBuild}
    /\ astray \in BOOLEAN

BuildsInit ==
    /\ build \in [Builds -> [status: {"absent"}, tag: Tags]]
    /\ queue = <<>> /\ running = Resting
    /\ docker = {}
    /\ image = [t \in Tags |-> NoBuild] /\ latest = NoBuild
    /\ astray = FALSE

Tagged(b) == build[b].tag

\* The alias is behind once the default tag moves without it.
Drifts(b) == astray \/ Tagged(b) = DefaultTag

----------------------------------------------------------------------------
\* createBuildJob and enqueueBuild, for a tag that is buildable.
EnqueueBuild(b) ==
    /\ build[b].status = "absent"
    /\ build' = [build EXCEPT ![b].status = "queued"]
    /\ queue' = Append(queue, b)
    /\ UNCHANGED <<running, docker, image, latest, astray>>

\* The chain of promises comes to the next job.
RunBuildJob(b) ==
    /\ running = Resting /\ queue # <<>> /\ b = Head(queue)
    /\ build' = [build EXCEPT ![b].status = "building"]
    /\ queue' = Tail(queue)
    /\ running' = [id |-> b, step |-> "build"]
    /\ UNCHANGED <<docker, image, latest, astray>>

FinishJob(b, status) ==
    /\ build' = [build EXCEPT ![b].status = status]
    /\ running' = Resting

AliasNeverDue(b) == FALSE   \* slip: only the build script moves the alias

AliasDue(b) == Tagged(b) = DefaultTag

\* The answer says that the image was built.
BuildSucceeds(b) ==
    /\ running = [id |-> b, step |-> "build"]
    /\ image' = [image EXCEPT ![Tagged(b)] = b]
    /\ \/ AliasDue(b) /\ running' = [id |-> b, step |-> "tag"] /\ UNCHANGED build
       \/ ~AliasDue(b) /\ FinishJob(b, "success")
    /\ UNCHANGED <<queue, docker, latest, astray>>

\* Docker's stream breaks: the provisioner ends its answer, which then holds
\* no error, and the job goes on as after a success.
BuildStreamBreaks(b) ==
    /\ running = [id |-> b, step |-> "build"]
    /\ \/ AliasDue(b) /\ running' = [id |-> b, step |-> "tag"] /\ UNCHANGED build
       \/ ~AliasDue(b) /\ FinishJob(b, "success")
    /\ docker' \in {docker, docker \cup {b}}
    /\ UNCHANGED <<queue, image, latest, astray>>

\* Docker reports an error, or the answer is lost and Docker goes on.
BuildFails(b) ==
    /\ running = [id |-> b, step |-> "build"]
    /\ FinishJob(b, "failed")
    /\ docker' \in {docker, docker \cup {b}}
    /\ UNCHANGED <<queue, image, latest, astray>>

\* The alias follows the default tag; a failure is a line of the log.
TagLatest(b) ==
    /\ running = [id |-> b, step |-> "tag"]
    /\ FinishJob(b, "success")
    /\ \/ image[DefaultTag] # NoBuild /\ latest' = image[DefaultTag] /\ astray' = FALSE
       \/ UNCHANGED latest /\ astray' = TRUE
    /\ UNCHANGED <<queue, docker, image>>

\* A build nobody waits for ends, well or not.
OrphanBuildEnds(b) ==
    /\ b \in docker
    /\ docker' = docker \ {b}
    /\ \/ image' = [image EXCEPT ![Tagged(b)] = b] /\ astray' = Drifts(b)
       \/ UNCHANGED <<image, astray>>
    /\ UNCHANGED <<build, queue, running, latest>>

\* removeImageGuarded: a tag, or the alias, is removed on request.
RemoveImage(t) ==
    /\ image' = [image EXCEPT ![t] = NoBuild]
    /\ astray' = (astray \/ t = DefaultTag)
    /\ UNCHANGED <<build, queue, running, docker, latest>>

RemoveLatest ==
    /\ latest' = NoBuild
    /\ astray' = TRUE
    /\ UNCHANGED <<build, queue, running, docker, image>>

RestartKeepsQueued ==       \* slip: only the job that was building is reconciled at start-up
    /\ queue' = <<>> /\ running' = Resting
    /\ build' = [b \in Builds |-> IF build[b].status = "building"
                                  THEN [build[b] EXCEPT !.status = "failed"] ELSE build[b]]
    /\ astray' = (astray \/ running.step = "tag")
    /\ docker' = docker \cup ({running.id} \ {NoBuild})
    /\ UNCHANGED <<image, latest>>

\* The queue goes with the process; reconcileStuckImageBuilds fails its jobs.
BuildsRestart ==
    /\ queue' = <<>> /\ running' = Resting
    /\ build' = [b \in Builds |-> IF build[b].status \in {"queued", "building"}
                                  THEN [build[b] EXCEPT !.status = "failed"] ELSE build[b]]
    /\ \/ running.step = "build" /\ docker' = docker \cup {running.id} /\ UNCHANGED astray
       \/ running.step = "tag" /\ astray' = TRUE /\ UNCHANGED docker
       \/ running.step = "rest" /\ UNCHANGED <<docker, astray>>
    /\ UNCHANGED <<image, latest>>

BuildStep(b) ==
    RunBuildJob(b) \/ BuildSucceeds(b) \/ BuildStreamBreaks(b) \/ BuildFails(b) \/ TagLatest(b)

BuildsNext ==
    \/ \E b \in Builds : EnqueueBuild(b) \/ BuildStep(b) \/ OrphanBuildEnds(b)
    \/ \E t \in Tags : RemoveImage(t)
    \/ RemoveLatest
    \/ BuildsRestart

\* Docker ends every build, and the provisioner answers.
BuildsFairness == WF_buildVars(\E b \in Builds : BuildStep(b))

BuildsSpec == BuildsInit /\ [][BuildsNext]_buildVars /\ BuildsFairness

----------------------------------------------------------------------------
(* Properties.                                                             *)

\* Sites are launched from the image last built for the default tag: outside
\* the run of its job the alias names it, unless moving the alias failed, one
\* of the two was removed, or Docker ended a build whose job had been given up
\* (runBuildJob and the comment at LATEST_TAG).
LatestFollowsDefault ==
    ~astray /\ running.step # "tag" => latest = image[DefaultTag]

\* Every job that says 'queued' or 'building' is one this process will come to.
PendingBuildsAreHeld ==
    \A b \in Builds :
        /\ build[b].status = "queued" <=> b \in Range(queue)
        /\ build[b].status = "building" <=> running.id = b

\* Every job comes to an end, also when the process restarts in the middle.
BuildsFinish ==
    \A b \in Builds :
        (build[b].status \in {"queued", "building"}) ~> (build[b].status \in {"success", "failed"})
=============================================================================
