---------------------------- MODULE JobsProofs -----------------------------
(***************************************************************************)
(* Work that is picked up and done: scheduled launches, bulk jobs, image   *)
(* builds, mails to clients, and the beats an editor sends.  Each section  *)
(* is about one module, for any values of its constants.                   *)
(***************************************************************************)
EXTENDS ScheduledLaunches, BulkJobs, ImageBuilds, Notifications, Heartbeats, SequenceLemmas, TLAPS

(***************************************************************************)
(* Scheduled launches, for any set of rows and any number of ticks that    *)
(* overlap.  The invariant follows a row that is not shared: it waits      *)
(* behind at most one tick, and is in the hands of at most one.            *)
(***************************************************************************)

Holder(l) == {t \in Ticks : tick[t].current = l \/ l \in tick[t].behind}

\* A row one tick has in hand, or none: what the row, its ticks and the histories say.
HeldOnce(l) ==
    /\ \A t, u \in Holder(l) : t = u
    /\ \A t \in Ticks : tick[t].current = l =>
          launch[l] = "launching" /\ l \notin tick[t].behind
    /\ \A t \in Ticks : l \in tick[t].behind => launch[l] \in {"pending", "cancelled"}
    /\ launch[l] \in {"launching", "completed", "failed"} => begun[l] = 1
    /\ launch[l] \in {"absent", "pending", "cancelled"} => begun[l] = 0
    /\ launch[l] = "failed" <=> l \in failures

OneHolder == \A l \in Launches \ shared : HeldOnce(l)

LaunchInv == LaunchesTypeOK /\ LaunchingIsAttended /\ OneHolder

LEMMA LaunchesStart == LaunchesInit => LaunchInv
  BY NoLaunchAssumption
  DEF LaunchesInit, LaunchInv, LaunchesTypeOK, LaunchStatus, Idle, LaunchingIsAttended, OneHolder, HeldOnce, Holder

LEMMA LaunchesTypeStep == LaunchesTypeOK /\ [LaunchesNext]_launchVars => LaunchesTypeOK'
<1> SUFFICES ASSUME LaunchesTypeOK, [LaunchesNext]_launchVars PROVE LaunchesTypeOK'
  OBVIOUS
<1>1. ASSUME NEW l \in Launches, ScheduleLaunch(l) \/ LaunchFallsDue(l) \/ CancelLaunch(l)
      PROVE  LaunchesTypeOK'
  BY <1>1 DEF ScheduleLaunch, LaunchFallsDue, CancelLaunch, LaunchesTypeOK, LaunchStatus
<1>2. CASE SwitchFeature
  BY <1>2 DEF SwitchFeature, LaunchesTypeOK
<1>3. ASSUME NEW t \in Ticks, NEW l \in Launches, TickSelects(t, l) PROVE LaunchesTypeOK'
  <2>1. DueRows \subseteq Launches
    BY DEF DueRows, LaunchesTypeOK
  <2> QED BY <1>3, <2>1 DEF TickSelects, BeginLaunch, LaunchesTypeOK, LaunchStatus
<1>4. ASSUME NEW t \in Ticks, NEW ok \in BOOLEAN, LaunchSettles(t, ok) PROVE LaunchesTypeOK'
  <2> DEFINE settled == [launch EXCEPT ![tick[t].current] = IF ok THEN "completed" ELSE "failed"]
  <2>1. settled \in [Launches -> LaunchStatus] /\ tick[t].current \in Launches
    BY <1>4 DEF LaunchSettles, LaunchesTypeOK, LaunchStatus
  <2>2. failures' \subseteq Launches
    BY <1>4, <2>1 DEF LaunchSettles, LaunchesTypeOK
  <2>3. ASSUME NEW x \in tick[t].behind, BeginLaunch(t, x, tick[t].behind \ {x}, settled)
        PROVE  LaunchesTypeOK'
    <3>1. x \in Launches
      BY DEF LaunchesTypeOK
    <3> HIDE DEF settled
    <3> QED BY <1>4, <2>1, <2>2, <2>3, <3>1
            DEF LaunchSettles, BeginLaunch, LaunchesTypeOK, LaunchStatus
  <2>4. CASE launch' = settled /\ tick' = [tick EXCEPT ![t] = Idle] /\ UNCHANGED begun
    BY <1>4, <2>1, <2>2, <2>4 DEF LaunchSettles, LaunchesTypeOK, Idle
  <2> QED BY <1>4, <2>3, <2>4 DEF LaunchSettles
<1>5. CASE LaunchesRestart
  BY <1>5 DEF LaunchesRestart, LaunchesTypeOK, Current, Idle
<1>6. CASE UNCHANGED launchVars
  BY <1>6 DEF launchVars, LaunchesTypeOK
<1> QED BY <1>1, <1>2, <1>3, <1>4, <1>5, <1>6 DEF LaunchesNext

LEMMA AttendedStep ==
    LaunchesTypeOK /\ LaunchingIsAttended /\ [LaunchesNext]_launchVars => LaunchingIsAttended'
<1> SUFFICES ASSUME LaunchesTypeOK, LaunchingIsAttended, [LaunchesNext]_launchVars,
                    NEW x \in Launches, launch'[x] = "launching"
             PROVE  x \in abandoned' \/ \E u \in Ticks : tick'[u].current = x
  BY NoLaunchAssumption DEF LaunchingIsAttended, Current
<1>0. launch[x] = "launching" => x \in abandoned \/ \E u \in Ticks : tick[u].current = x
  BY DEF LaunchingIsAttended, Current
<1>1. ASSUME NEW l \in Launches, ScheduleLaunch(l) \/ LaunchFallsDue(l) \/ CancelLaunch(l)
      PROVE  x \in abandoned' \/ \E u \in Ticks : tick'[u].current = x
  BY <1>0, <1>1 DEF ScheduleLaunch, LaunchFallsDue, CancelLaunch, LaunchesTypeOK
<1>2. ASSUME NEW t \in Ticks, NEW l \in Launches, TickSelects(t, l)
      PROVE  x \in abandoned' \/ \E u \in Ticks : tick'[u].current = x
  BY <1>0, <1>2, NoLaunchAssumption DEF TickSelects, BeginLaunch, Idle, LaunchesTypeOK
<1>3. ASSUME NEW t \in Ticks, NEW ok \in BOOLEAN, LaunchSettles(t, ok)
      PROVE  x \in abandoned' \/ \E u \in Ticks : tick'[u].current = x
  BY <1>0, <1>3 DEF LaunchSettles, BeginLaunch, LaunchesTypeOK
<1>4. CASE LaunchesRestart
  BY <1>0, <1>4, NoLaunchAssumption DEF LaunchesRestart, Current
<1> QED BY <1>0, <1>1, <1>2, <1>3, <1>4 DEF LaunchesNext, launchVars, SwitchFeature

LEMMA HolderStep == LaunchesTypeOK /\ OneHolder /\ [LaunchesNext]_launchVars => OneHolder'
<1> SUFFICES ASSUME LaunchesTypeOK, OneHolder, [LaunchesNext]_launchVars PROVE OneHolder'
  OBVIOUS
<1> USE DEF Holder, HeldOnce, LaunchStatus
<1>1. ASSUME NEW l \in Launches, ScheduleLaunch(l) PROVE OneHolder'
  BY <1>1 DEF ScheduleLaunch, LaunchesTypeOK, OneHolder
<1>2. ASSUME NEW l \in Launches, CancelLaunch(l) PROVE OneHolder'
  BY <1>2 DEF CancelLaunch, LaunchesTypeOK, OneHolder
<1>3. ASSUME NEW t \in Ticks, NEW l \in Launches, TickSelects(t, l) PROVE OneHolder'
  <2> SUFFICES ASSUME NEW x \in Launches \ shared'
               PROVE  HeldOnce(x)'
    BY DEF OneHolder
  <2>1. /\ x \notin shared /\ DueRows \subseteq {y \in Launches : launch[y] = "pending"}
        /\ tick[t].current = NoLaunch /\ tick[t].behind = {}
    BY <1>3 DEF TickSelects, Idle, DueRows, LaunchesTypeOK
  <2>2. x \in DueRows => \A u \in Ticks : x \notin tick[u].behind
    BY <1>3 DEF TickSelects, Behind
  <2>3. /\ tick' = [tick EXCEPT ![t] = [current |-> l, behind |-> DueRows \ {l}]]
        /\ launch' = [launch EXCEPT ![l] = "launching"]
        /\ begun' = [begun EXCEPT ![l] = IF @ = 2 THEN 2 ELSE @ + 1]
        /\ l \in DueRows /\ UNCHANGED failures
    BY <1>3 DEF TickSelects, BeginLaunch
  <2>4. x \in DueRows => Holder(x) = {}
    BY <2>1, <2>2 DEF OneHolder
  <2> QED BY <2>1, <2>2, <2>3, <2>4 DEF LaunchesTypeOK, OneHolder
<1>4. ASSUME NEW t \in Ticks, NEW ok \in BOOLEAN, LaunchSettles(t, ok) PROVE OneHolder'
  <2> DEFINE l == tick[t].current
             settled == [launch EXCEPT ![l] = IF ok THEN "completed" ELSE "failed"]
  <2>1. /\ l \in Launches /\ UNCHANGED shared
        /\ failures' = IF ok THEN failures ELSE failures \cup {l}
    BY <1>4 DEF LaunchSettles, LaunchesTypeOK
  <2>2. CASE launch' = settled /\ tick' = [tick EXCEPT ![t] = Idle] /\ UNCHANGED begun
    BY <2>1, <2>2, NoLaunchAssumption DEF Idle, LaunchesTypeOK, OneHolder
  <2>3. ASSUME NEW next \in tick[t].behind,
               BeginLaunch(t, next, tick[t].behind \ {next}, settled)
        PROVE  OneHolder'
    <3> SUFFICES ASSUME NEW x \in Launches \ shared
                 PROVE  HeldOnce(x)'
      BY <2>1 DEF OneHolder
    <3>1. /\ tick' = [tick EXCEPT ![t] = [current |-> next, behind |-> tick[t].behind \ {next}]]
          /\ launch' = [settled EXCEPT ![next] = "launching"]
          /\ begun' = [begun EXCEPT ![next] = IF @ = 2 THEN 2 ELSE @ + 1]
          /\ next \in Launches
      BY <2>3 DEF BeginLaunch, LaunchesTypeOK
    <3>2. CASE x = l
      <4>1. x # next /\ x \notin tick[t].behind /\ \A u \in Ticks : u # t => u \notin Holder(x)
        BY <3>2, <2>3 DEF OneHolder
      <4>2. begun[x] = 1 /\ launch[x] = "launching"
        BY <3>2 DEF OneHolder
      <4>3. launch'[x] = (IF ok THEN "completed" ELSE "failed") /\ begun'[x] = 1
        BY <2>1, <3>1, <3>2, <4>1, <4>2 DEF LaunchesTypeOK
      <4>4. x \in failures' <=> ~ok
        BY <2>1, <3>2, <4>2 DEF OneHolder
      <4>5. Holder(x)' = {}
        BY <3>1, <3>2, <4>1 DEF LaunchesTypeOK
      <4> QED BY <4>3, <4>4, <4>5
    <3>3. CASE x # l
      BY <2>1, <2>3, <3>1, <3>3 DEF LaunchesTypeOK, OneHolder
    <3> QED BY <3>2, <3>3
  <2> QED BY <1>4, <2>2, <2>3 DEF LaunchSettles
<1>5. CASE LaunchesRestart
  BY <1>5, NoLaunchAssumption DEF LaunchesRestart, Idle, LaunchesTypeOK, OneHolder
<1>6. CASE UNCHANGED <<launch, tick, begun, failures, shared>>
  BY <1>6 DEF OneHolder
<1>7. CASE SwitchFeature \/ UNCHANGED launchVars \/ \E l \in Launches : LaunchFallsDue(l)
  BY <1>6, <1>7 DEF SwitchFeature, launchVars, LaunchFallsDue
<1> QED BY <1>1, <1>2, <1>3, <1>4, <1>5, <1>7 DEF LaunchesNext

\* The invariant of the scheduled launches.
THEOREM LaunchesCorrect == LaunchesSpec => []LaunchInv
<1>1. LaunchInv /\ [LaunchesNext]_launchVars => LaunchInv'
  BY LaunchesTypeStep, AttendedStep, HolderStep DEF LaunchInv
<1> QED BY <1>1, LaunchesStart, PTL DEF LaunchesSpec

\* Rows, ticks and histories keep their types.
THEOREM LaunchesTypeCorrect == LaunchesSpec => []LaunchesTypeOK
<1>1. LaunchInv => LaunchesTypeOK
  BY DEF LaunchInv
<1> QED BY <1>1, LaunchesCorrect, PTL

\* A row says 'launching' only under a tick, or after a restart took the tick.
THEOREM LaunchingAttended == LaunchesSpec => []LaunchingIsAttended
<1>1. LaunchInv => LaunchingIsAttended
  BY DEF LaunchInv
<1> QED BY <1>1, LaunchesCorrect, PTL

\* Ticks that do not meet on a waiting row launch it at most once, and what
\* the row says of the launch is so.
THEOREM LaunchedOnce == LaunchesSpec => []LaunchedOnceUnlessShared
<1>1. LaunchInv => LaunchedOnceUnlessShared
  BY NoLaunchAssumption
  DEF LaunchInv, OneHolder, HeldOnce, LaunchedOnceUnlessShared, LaunchesTypeOK, LaunchStatus, Current
<1> QED BY <1>1, LaunchesCorrect, PTL

(***************************************************************************)
(* Bulk jobs, for any set of jobs and any number of sites a job asks for:  *)
(* the types, the account of the sites, and that a cancelled job begins no *)
(* other site.                                                             *)
(***************************************************************************)

\* Where the loop is tells what the row and the counters say.
LoopInv ==
    \A j \in Jobs :
        /\ loop[j] # "none" => job[j].status = "running"
        /\ loop[j] = "none" => ~signal[j]
        /\ loop[j] = "creating" => asked[j] = job[j].done + 1
        /\ loop[j] = "pausing" => asked[j] = job[j].done /\ asked[j] < Total
        /\ job[j].status = "absent" => asked[j] = 0 /\ job[j].done = 0

BulkInv == BulkTypeOK /\ LoopInv /\ SitesAccountedFor

LEMMA BulkStarts == BulkInit => BulkInv
  BY TotalAssumption DEF BulkInit, BulkInv, BulkTypeOK, LoopInv, SitesAccountedFor, JobStatus

LEMMA BulkSteps == BulkInv /\ [BulkNext]_bulkVars => BulkInv'
<1> SUFFICES ASSUME BulkInv, [BulkNext]_bulkVars PROVE BulkInv'
  OBVIOUS
<1> USE TotalAssumption
<1>1. ASSUME NEW j \in Jobs, StartBulkJob(j) PROVE BulkInv'
  <2>1. BulkTypeOK'
    BY <1>1 DEF StartBulkJob, BulkInv, BulkTypeOK, LoopInv, SitesAccountedFor, JobStatus
  <2>2. LoopInv'
    BY <1>1 DEF StartBulkJob, BulkInv, BulkTypeOK, LoopInv, SitesAccountedFor, JobStatus
  <2>3. SitesAccountedFor'
    BY <1>1 DEF StartBulkJob, BulkInv, BulkTypeOK, LoopInv, SitesAccountedFor, JobStatus
  <2> QED BY <2>1, <2>2, <2>3 DEF BulkInv
<1>2. ASSUME NEW j \in Jobs, PauseEnds(j) PROVE BulkInv'
  <2>1. BulkTypeOK'
    <3>1. asked[j] \in 0..Total /\ asked[j] < Total
      BY <1>2 DEF PauseEnds, BulkInv, BulkTypeOK, LoopInv
    <3>2. CASE /\ job' = [job EXCEPT ![j].status = "cancelled"]
               /\ loop' = [loop EXCEPT ![j] = "none"]
               /\ signal' = [signal EXCEPT ![j] = FALSE]
               /\ UNCHANGED <<asked, cut>>
      BY <3>2 DEF BulkInv, BulkTypeOK, JobStatus
    <3>3. CASE asked' = [asked EXCEPT ![j] = @ + 1] /\ UNCHANGED <<job, signal>>
      BY <1>2, <3>1, <3>3 DEF PauseEnds, BulkInv, BulkTypeOK
    <3> QED BY <1>2, <3>2, <3>3 DEF PauseEnds
  <2>2. LoopInv'
    BY <1>2 DEF PauseEnds, BulkInv, BulkTypeOK, LoopInv, SitesAccountedFor, JobStatus
  <2>3. SitesAccountedFor'
    BY <1>2 DEF PauseEnds, BulkInv, BulkTypeOK, LoopInv, SitesAccountedFor, JobStatus
  <2> QED BY <2>1, <2>2, <2>3 DEF BulkInv
<1>3. ASSUME NEW j \in Jobs, LoopThrows(j) PROVE BulkInv'
  <2>1. BulkTypeOK'
    BY <1>3 DEF LoopThrows, BulkInv, BulkTypeOK, JobStatus
  <2>2. LoopInv'
    BY <1>3 DEF LoopThrows, BulkInv, BulkTypeOK, LoopInv, SitesAccountedFor
  <2>3. SitesAccountedFor'
    BY <1>3 DEF LoopThrows, BulkInv, BulkTypeOK, LoopInv, SitesAccountedFor
  <2> QED BY <2>1, <2>2, <2>3 DEF BulkInv
<1>4. ASSUME NEW j \in Jobs, CancelBulkJob(j) PROVE BulkInv'
  <2>1. CASE /\ loop[j] # "none" /\ signal' = [signal EXCEPT ![j] = TRUE]
             /\ UNCHANGED <<job, loop, asked, cut>>
    BY <2>1 DEF BulkInv, BulkTypeOK, LoopInv, SitesAccountedFor
  <2>2. CASE /\ loop[j] = "none" /\ job[j].status = "running"
             /\ job' = [job EXCEPT ![j].status = "cancelled"]
             /\ UNCHANGED <<signal, loop, asked, cut>>
    BY <2>2 DEF BulkInv, BulkTypeOK, LoopInv, SitesAccountedFor, JobStatus
  <2> QED BY <1>4, <2>1, <2>2 DEF CancelBulkJob
<1>5. ASSUME NEW j \in Jobs, NEW ok \in BOOLEAN, SiteSettles(j, ok) PROVE BulkInv'
  <2>1. BulkTypeOK'
    <3>1. /\ job[j] \in [status: JobStatus, done: 0..Total, failed: 0..Total]
          /\ job[j].done + 1 \in 0..Total /\ job[j].failed + 1 \in 0..Total
      BY <1>5 DEF SiteSettles, BulkInv, BulkTypeOK, LoopInv, SitesAccountedFor
    <3>2. Counted(job[j], ok) \in [status: JobStatus, done: 0..Total, failed: 0..Total]
      BY <3>1 DEF Counted
    <3>3. [Counted(job[j], ok) EXCEPT !.status = "completed"]
             \in [status: JobStatus, done: 0..Total, failed: 0..Total]
      BY <3>2 DEF JobStatus
    <3>4. job' \in [Jobs -> [status: JobStatus, done: 0..Total, failed: 0..Total]]
      BY <1>5, <3>2, <3>3 DEF SiteSettles, BulkInv, BulkTypeOK
    <3> QED BY <1>5, <3>4 DEF SiteSettles, BulkInv, BulkTypeOK
  <2>2. LoopInv'
    BY <1>5 DEF SiteSettles, Counted, BulkInv, BulkTypeOK, LoopInv, SitesAccountedFor, JobStatus
  <2>3. SitesAccountedFor'
    BY <1>5 DEF SiteSettles, Counted, BulkInv, BulkTypeOK, LoopInv, SitesAccountedFor, JobStatus
  <2> QED BY <2>1, <2>2, <2>3 DEF BulkInv
<1>6. ASSUME BulkRestart PROVE BulkInv'
  BY <1>6 DEF BulkRestart, BulkInv, BulkTypeOK, LoopInv, SitesAccountedFor, JobStatus
<1>7. ASSUME UNCHANGED bulkVars PROVE BulkInv'
  BY <1>7 DEF bulkVars, BulkInv, BulkTypeOK, LoopInv, SitesAccountedFor, JobStatus
<1> QED
  BY <1>1, <1>2, <1>3, <1>4, <1>5, <1>6, <1>7 DEF BulkNext

\* Where the loop is and what the row says agree, always.
THEOREM BulkCorrect == BulkSpec => []BulkInv
  BY BulkStarts, BulkSteps, PTL DEF BulkSpec

\* Every column and counter keeps its type; no counter passes the job's total.
THEOREM BulkTypeCorrect == BulkSpec => []BulkTypeOK
<1>1. BulkInv => BulkTypeOK
  BY DEF BulkInv
<1> QED BY <1>1, BulkCorrect, PTL

\* The outcome of every site asked for is recorded, save one a restart took.
THEOREM OutcomesRecorded == BulkSpec => []SitesAccountedFor
<1>1. BulkInv => SitesAccountedFor
  BY DEF BulkInv
<1> QED BY <1>1, BulkCorrect, PTL

\* A job that was cancelled, or told to be, begins no other site.
THEOREM CancelledJobsStop == BulkSpec => NoSiteAfterCancel
<1> DEFINE Stays == \A j \in Jobs :
                       signal[j] \/ job[j].status = "cancelled" => asked'[j] = asked[j]
<1>1. ASSUME BulkInv, [BulkNext]_bulkVars PROVE [Stays]_bulkVars
  <2> SUFFICES ASSUME NEW x \in Jobs, signal[x] \/ job[x].status = "cancelled"
               PROVE  asked'[x] = asked[x]
    OBVIOUS
  <2>1. loop[x] # "none" => job[x].status = "running" /\ signal[x]
    BY <1>1 DEF BulkInv, LoopInv
  <2>2. loop[x] = "none" => job[x].status # "absent"
    BY <1>1 DEF BulkInv, LoopInv
  <2>3. asked \in [Jobs -> 0..Total]
    BY <1>1 DEF BulkInv, BulkTypeOK
  <2>4. ASSUME NEW j \in Jobs, StartBulkJob(j) PROVE asked'[x] = asked[x]
    BY <2>1, <2>2, <2>3, <2>4 DEF StartBulkJob
  <2>5. ASSUME NEW j \in Jobs, PauseEnds(j) PROVE asked'[x] = asked[x]
    BY <2>1, <2>3, <2>5 DEF PauseEnds
  <2> QED
    BY <1>1, <2>4, <2>5
    DEF BulkNext, bulkVars, LoopThrows, CancelBulkJob, SiteSettles, BulkRestart
<1> QED BY <1>1, BulkCorrect, PTL DEF BulkSpec, NoSiteAfterCancel

(***************************************************************************)
(* Image builds: what the alias names, between two jobs.                   *)
(***************************************************************************)

\* Whatever is awaited is awaited for a job.
JobAtWork == running.step # "rest" => running.id \in Builds

AliasInv == BuildsTypeOK /\ JobAtWork /\ LatestFollowsDefault

LEMMA AliasStarts == BuildsInit => AliasInv
<1> SUFFICES ASSUME BuildsInit PROVE AliasInv
  OBVIOUS
<1>1. build \in [Builds -> [status: BuildStatus, tag: Tags]]
  <2>1. [status: {"absent"}, tag: Tags] \subseteq [status: BuildStatus, tag: Tags]
    BY DEF BuildStatus
  <2> QED BY <2>1 DEF BuildsInit
<1>2. queue \in Seq(Builds) /\ running \in [id: Builds \cup {NoBuild}, step: {"rest", "build", "tag"}]
  BY DEF BuildsInit, Resting
<1>3. BuildsTypeOK
  BY <1>1, <1>2 DEF BuildsInit, BuildsTypeOK
<1>4. LatestFollowsDefault
  BY DefaultTagAssumption DEF BuildsInit, LatestFollowsDefault
<1>5. JobAtWork
  BY DEF BuildsInit, JobAtWork, Resting
<1> QED BY <1>3, <1>4, <1>5 DEF AliasInv

\* A row keeps its tag; its status is what a step says it is.
LEMMA StatusTyped ==
    ASSUME BuildsTypeOK, NEW b \in Builds, NEW st \in BuildStatus
    PROVE  [build EXCEPT ![b].status = st] \in [Builds -> [status: BuildStatus, tag: Tags]]
<1>1. [build[b] EXCEPT !.status = st] \in [status: BuildStatus, tag: Tags]
  BY DEF BuildsTypeOK
<1>2. [build EXCEPT ![b].status = st] = [build EXCEPT ![b] = [build[b] EXCEPT !.status = st]]
  BY DEF BuildsTypeOK
<1> QED BY <1>1, <1>2 DEF BuildsTypeOK

LEMMA JobAtWorkStep == BuildsTypeOK /\ JobAtWork /\ [BuildsNext]_buildVars => JobAtWork'
BY DEF BuildsNext, BuildStep, EnqueueBuild, RunBuildJob, BuildSucceeds, BuildStreamBreaks, BuildFails,
       TagLatest, FinishJob, OrphanBuildEnds, RemoveImage, RemoveLatest, BuildsRestart, buildVars,
       BuildsTypeOK, JobAtWork, Resting

LEMMA BuildsTypeStep == BuildsTypeOK /\ JobAtWork /\ [BuildsNext]_buildVars => BuildsTypeOK'
<1> SUFFICES ASSUME BuildsTypeOK, JobAtWork, [BuildsNext]_buildVars PROVE BuildsTypeOK'
  OBVIOUS
<1>1. ASSUME NEW b \in Builds, EnqueueBuild(b) PROVE BuildsTypeOK'
  <2>1. build' \in [Builds -> [status: BuildStatus, tag: Tags]]
    BY <1>1, StatusTyped DEF EnqueueBuild, BuildStatus
  <2> QED BY <1>1, <2>1 DEF EnqueueBuild, BuildsTypeOK
<1>2. ASSUME NEW b \in Builds, RunBuildJob(b) PROVE BuildsTypeOK'
  <2>1. build' \in [Builds -> [status: BuildStatus, tag: Tags]]
    BY <1>2, StatusTyped DEF RunBuildJob, BuildStatus
  <2> QED BY <1>2, <2>1 DEF RunBuildJob, BuildsTypeOK
<1>3. ASSUME NEW b \in Builds, BuildSucceeds(b) \/ BuildStreamBreaks(b) PROVE BuildsTypeOK'
  <2>1. build' \in [Builds -> [status: BuildStatus, tag: Tags]]
    <3>1. build' = build \/ build' = [build EXCEPT ![b].status = "success"]
      BY <1>3, Zenon DEF BuildSucceeds, BuildStreamBreaks, FinishJob
    <3>2. "success" \in BuildStatus /\ build \in [Builds -> [status: BuildStatus, tag: Tags]]
      BY DEF BuildStatus, BuildsTypeOK
    <3> QED BY <3>1, <3>2, StatusTyped
  <2> QED
    BY SMTT(30), <1>3, <2>1 DEF BuildSucceeds, BuildStreamBreaks, FinishJob, Resting, Tagged, BuildsTypeOK
<1>4. ASSUME NEW b \in Builds, BuildFails(b) PROVE BuildsTypeOK'
  <2>1. build' \in [Builds -> [status: BuildStatus, tag: Tags]]
    BY <1>4, StatusTyped DEF BuildFails, FinishJob, BuildStatus
  <2> QED BY <1>4, <2>1 DEF BuildFails, FinishJob, Resting, BuildsTypeOK
<1>5. ASSUME NEW b \in Builds, TagLatest(b) PROVE BuildsTypeOK'
  <2>1. build' \in [Builds -> [status: BuildStatus, tag: Tags]]
    BY <1>5, StatusTyped DEF TagLatest, FinishJob, BuildStatus
  <2> QED BY <1>5, <2>1, DefaultTagAssumption DEF TagLatest, FinishJob, Resting, BuildsTypeOK
<1>6. ASSUME NEW b \in Builds, OrphanBuildEnds(b) PROVE BuildsTypeOK'
  BY <1>6 DEF OrphanBuildEnds, Drifts, Tagged, BuildsTypeOK
<1>7. ASSUME NEW t \in Tags, RemoveImage(t) PROVE BuildsTypeOK'
  BY <1>7 DEF RemoveImage, BuildsTypeOK
<1>8. CASE RemoveLatest
  BY <1>8 DEF RemoveLatest, BuildsTypeOK
<1>9. CASE BuildsRestart
  <2>1. \A b \in Builds : [build[b] EXCEPT !.status = "failed"] \in [status: BuildStatus, tag: Tags]
    BY DEF BuildsTypeOK, BuildStatus
  <2>2. build' \in [Builds -> [status: BuildStatus, tag: Tags]]
    BY <1>9, <2>1 DEF BuildsRestart, BuildsTypeOK
  <2>3. queue' \in Seq(Builds) /\ running' \in [id: Builds \cup {NoBuild}, step: {"rest", "build", "tag"}]
    BY <1>9 DEF BuildsRestart, Resting
  <2>4. docker' \subseteq Builds
    BY <1>9 DEF BuildsRestart, BuildsTypeOK, JobAtWork
  <2> QED BY <1>9, <2>2, <2>3, <2>4 DEF BuildsRestart, BuildsTypeOK
<1>10. CASE UNCHANGED buildVars
  BY <1>10 DEF buildVars, BuildsTypeOK
<1> QED
  BY <1>1, <1>2, <1>3, <1>4, <1>5, <1>6, <1>7, <1>8, <1>9, <1>10 DEF BuildsNext, BuildStep

LEMMA AliasStep == AliasInv /\ [BuildsNext]_buildVars => LatestFollowsDefault'
<1> SUFFICES ASSUME BuildsTypeOK, LatestFollowsDefault, [BuildsNext]_buildVars
             PROVE  LatestFollowsDefault'
  BY DEF AliasInv
<1> USE DefaultTagAssumption DEF BuildsTypeOK, LatestFollowsDefault, Resting
<1>1. ASSUME NEW b \in Builds, EnqueueBuild(b) \/ RunBuildJob(b) \/ BuildFails(b)
      PROVE  LatestFollowsDefault'
  BY <1>1 DEF EnqueueBuild, RunBuildJob, BuildFails, FinishJob
<1>2. ASSUME NEW b \in Builds, BuildSucceeds(b) \/ BuildStreamBreaks(b) PROVE LatestFollowsDefault'
  <2>1. CASE Tagged(b) = DefaultTag
    BY <1>2, <2>1 DEF BuildSucceeds, BuildStreamBreaks, AliasDue
  <2>2. CASE Tagged(b) # DefaultTag
    BY <1>2, <2>2 DEF BuildSucceeds, BuildStreamBreaks, FinishJob, AliasDue, Tagged
  <2> QED BY <2>1, <2>2
<1>3. ASSUME NEW b \in Builds, TagLatest(b) PROVE LatestFollowsDefault'
  BY <1>3 DEF TagLatest, FinishJob
<1>4. ASSUME NEW b \in Builds, OrphanBuildEnds(b) PROVE LatestFollowsDefault'
  <2>1. CASE image' = image /\ astray' = astray
    BY <1>4, <2>1 DEF OrphanBuildEnds
  <2>2. CASE image' = [image EXCEPT ![Tagged(b)] = b] /\ astray' = Drifts(b)
    <3>1. CASE Drifts(b)
      BY <2>2, <3>1
    <3>2. CASE ~Drifts(b)
      BY <1>4, <2>2, <3>2 DEF OrphanBuildEnds, Drifts
    <3> QED BY <3>1, <3>2
  <2> QED BY <1>4, <2>1, <2>2 DEF OrphanBuildEnds
<1>5. ASSUME NEW t \in Tags, RemoveImage(t) PROVE LatestFollowsDefault'
  BY <1>5 DEF RemoveImage
<1>6. CASE RemoveLatest \/ BuildsRestart
  BY <1>6 DEF RemoveLatest, BuildsRestart
<1>7. CASE UNCHANGED buildVars
  BY <1>7 DEF buildVars
<1> QED BY <1>1, <1>2, <1>3, <1>4, <1>5, <1>6, <1>7 DEF BuildsNext, BuildStep

\* The invariant of the alias.
THEOREM AliasCorrect == BuildsSpec => []AliasInv
<1>1. AliasInv /\ [BuildsNext]_buildVars => AliasInv'
  BY BuildsTypeStep, JobAtWorkStep, AliasStep DEF AliasInv
<1> QED BY <1>1, AliasStarts, PTL DEF BuildsSpec

\* Whatever is built, fails, is removed, goes on without its job or is cut short
\* by a restart, the alias names the default tag's image, where nothing told the
\* two apart.
THEOREM AliasFollows == BuildsSpec => []LatestFollowsDefault
<1>1. AliasInv => LatestFollowsDefault
  BY DEF AliasInv
<1> QED BY <1>1, AliasCorrect, PTL

\* Rows, queue and images stay of their kinds (the chain of image builds).
THEOREM BuildsTypeCorrect == BuildsSpec => []BuildsTypeOK
<1>1. AliasInv => BuildsTypeOK
  BY DEF AliasInv
<1> QED BY <1>1, AliasCorrect, PTL

(***************************************************************************)
(* Image builds: no job is forgotten.                                      *)
(***************************************************************************)

\* A job waits at one place of the queue.
QueuedOnce == \A i, j \in 1..Len(queue) : queue[i] = queue[j] => i = j

HeldInv == BuildsTypeOK /\ JobAtWork /\ QueuedOnce /\ PendingBuildsAreHeld /\ (running.step = "rest" => running = Resting)

LEMMA HeldStarts == BuildsInit => HeldInv
<1> SUFFICES ASSUME BuildsInit PROVE HeldInv
  OBVIOUS
<1>1. BuildsTypeOK /\ JobAtWork
  BY AliasStarts DEF AliasInv
<1>2. Range(queue) = {} /\ Len(queue) = 0
  BY DEF BuildsInit, Range
<1>3. \A b \in Builds : build[b].status = "absent"
  BY DEF BuildsInit
<1> QED
  BY <1>1, <1>2, <1>3, NoBuildAssumption
  DEF HeldInv, QueuedOnce, PendingBuildsAreHeld, BuildsInit, Resting

LEMMA QueueStep ==
    ASSUME HeldInv, [BuildsNext]_buildVars
    PROVE  QueuedOnce' /\ PendingBuildsAreHeld' /\ (running'.step = "rest" => running' = Resting)
<1> DEFINE Held == QueuedOnce' /\ PendingBuildsAreHeld' /\ (running'.step = "rest" => running' = Resting)
<1> USE DEF HeldInv
<1>1. ASSUME NEW b \in Builds, EnqueueBuild(b) PROVE Held
  <2>1. queue \in Seq(Builds) /\ b \notin Range(queue) /\ running.id # b
    BY <1>1 DEF EnqueueBuild, BuildsTypeOK, PendingBuildsAreHeld
  <2>2. Range(queue') = Range(queue) \cup {b}
    BY <1>1, <2>1, RangeOfAppend DEF EnqueueBuild
  <2>3. QueuedOnce'
    <3>1. \A i \in 1..Len(queue) : queue[i] # b
      BY <2>1 DEF Range
    <3> QED BY <1>1, <2>1, <3>1 DEF EnqueueBuild, QueuedOnce
  <2>4. running' = running /\ build'[b].status = "queued" /\ \A x \in Builds : x # b => build'[x] = build[x]
    BY <1>1 DEF EnqueueBuild, BuildsTypeOK
  <2> QED BY <2>1, <2>2, <2>3, <2>4 DEF PendingBuildsAreHeld
<1>2. ASSUME NEW b \in Builds, RunBuildJob(b) PROVE Held
  <2>1. queue \in Seq(Builds) /\ queue # <<>> /\ b = Head(queue) /\ queue' = Tail(queue)
    BY <1>2 DEF RunBuildJob, BuildsTypeOK
  <2>2. Range(queue') = Range(queue) \ {b}
    BY <2>1, RangeOfTail DEF QueuedOnce
  <2>3. QueuedOnce'
    <3>1. Len(queue') = Len(queue) - 1 /\ \A i \in 1..Len(queue') : queue'[i] = queue[i + 1] /\ i + 1 \in 1..Len(queue)
      BY <2>1
    <3>2. \A i, j \in 1..Len(queue') : queue'[i] = queue'[j] => i + 1 = j + 1
      BY <3>1 DEF QueuedOnce
    <3>3. Len(queue') \in Nat
      BY <2>1, <3>1
    <3> QED BY <3>2, <3>3 DEF QueuedOnce
  <2>4. /\ running.id = NoBuild /\ running' = [id |-> b, step |-> "build"]
        /\ build'[b].status = "building" /\ \A x \in Builds : x # b => build'[x] = build[x]
    BY <1>2 DEF RunBuildJob, Resting, BuildsTypeOK
  <2> QED BY <2>2, <2>3, <2>4, NoBuildAssumption DEF PendingBuildsAreHeld
<1>3. ASSUME NEW b \in Builds, BuildSucceeds(b) \/ BuildStreamBreaks(b) \/ BuildFails(b) \/ TagLatest(b)
      PROVE  Held
  <2>1. queue' = queue /\ running.id = b /\ build[b].status = "building"
    BY <1>3 DEF BuildSucceeds, BuildStreamBreaks, BuildFails, TagLatest, PendingBuildsAreHeld
  <2>2. \/ running' = [id |-> b, step |-> "tag"] /\ build' = build
        \/ FinishJob(b, "success") \/ FinishJob(b, "failed")
    BY <1>3 DEF BuildSucceeds, BuildStreamBreaks, BuildFails, TagLatest
  <2>3. CASE running' = [id |-> b, step |-> "tag"] /\ build' = build
    BY <2>1, <2>3 DEF QueuedOnce, PendingBuildsAreHeld
  <2>4. CASE FinishJob(b, "success") \/ FinishJob(b, "failed")
    <3>1. /\ running' = Resting /\ build'[b].status \in {"success", "failed"}
          /\ \A x \in Builds : x # b => build'[x] = build[x]
      BY <2>4 DEF FinishJob, BuildsTypeOK
    <3> QED
      BY <2>1, <3>1, NoBuildAssumption DEF QueuedOnce, PendingBuildsAreHeld, Resting
  <2> QED BY <2>2, <2>3, <2>4
<1>4. CASE BuildsRestart
  <2>1. queue' = <<>> /\ running' = Resting /\ Range(queue') = {} /\ Len(queue') = 0
    BY <1>4 DEF BuildsRestart, Range
  <2>2. \A b \in Builds : build'[b].status \notin {"queued", "building"}
    BY <1>4 DEF BuildsRestart, BuildsTypeOK
  <2> QED BY <2>1, <2>2, NoBuildAssumption DEF QueuedOnce, PendingBuildsAreHeld, Resting
<1>5. CASE UNCHANGED <<build, queue, running>>
  BY <1>5 DEF QueuedOnce, PendingBuildsAreHeld
<1> QED
  BY <1>1, <1>2, <1>3, <1>4, <1>5
  DEF BuildsNext, BuildStep, OrphanBuildEnds, RemoveImage, RemoveLatest, buildVars

\* Every job that says 'queued' or 'building' is in the queue or at work, through
\* any number of restarts: reconcileStuckImageBuilds leaves none behind.
THEOREM NoBuildForgotten == BuildsSpec => []PendingBuildsAreHeld
<1>1. HeldInv /\ [BuildsNext]_buildVars => HeldInv'
  BY BuildsTypeStep, JobAtWorkStep, QueueStep DEF HeldInv
<1>2. HeldInv => PendingBuildsAreHeld
  BY DEF HeldInv
<1> QED BY <1>1, <1>2, HeldStarts, PTL DEF BuildsSpec

(***************************************************************************)
(* Notifications: a row's two ways to its recipient, its own mail and the  *)
(* digest, meet only where the digest says so.                             *)
(***************************************************************************)

RowOK(n) ==
    /\ note[n] = "absent" => mailed[n] = 0
    /\ note[n] \in {"absent", "suppressed"} => n \notin sending /\ n \notin digest.rows
    /\ n \notin raced \cup unsure =>
          /\ n \in sending => note[n] = "pending" /\ n \notin digest.rows
          /\ n \in digest.rows => note[n] = "pending"
          /\ mailed[n] <= 1 /\ (note[n] = "pending" => mailed[n] = 0)

NotesInv ==
    /\ NotesTypeOK
    /\ \A e \in Events, r \in Recipients : r \in telling[e] => note[<<e, r>>] = "absent"
    /\ \A n \in Notes : RowOK(n)

LEMMA NotesStart == NotesInit => NotesInv
<1> SUFFICES ASSUME NotesInit PROVE NotesInv
  OBVIOUS
<1>1. NotesTypeOK
  <2>1. digest \in [left: SUBSET Recipients, now: Recipients \cup {NoOne}, rows: SUBSET Notes]
    BY DEF NotesInit, NoDigest
  <2>2. restarts \in 0..MaxRestarts /\ mailed \in [Notes -> 0..2]
    BY MaxRestartsAssumption DEF NotesInit
  <2> QED BY <2>1, <2>2 DEF NotesInit, NotesTypeOK
<1>2. \A n \in Notes : RowOK(n)
  BY DEF NotesInit, RowOK, NoDigest
<1> QED BY <1>1, <1>2 DEF NotesInv, NotesInit

LEMMA MailedNowTyped ==
    ASSUME NotesTypeOK, NEW N
    PROVE  /\ MailedNow(N) \in [Notes -> 0..2]
           /\ Stamped(N) \in [Notes -> {"absent", "pending", "suppressed", "sent"}]
BY DEF NotesTypeOK, MailedNow, Stamped

DigestSet == [left: SUBSET Recipients, now: Recipients \cup {NoOne}, rows: SUBSET Notes]

\* What becomes of a digest.
LEMMA DigestShapes ==
    ASSUME NotesTypeOK, NEW r \in Recipients
    PROVE  /\ NoDigest \in DigestSet /\ NoDigest.rows = {}
           /\ [digest EXCEPT !.left = @ \ {r}, !.now = r] \in DigestSet
           /\ [digest EXCEPT !.left = @ \ {r}, !.now = r].rows = digest.rows
           /\ [digest EXCEPT !.left = @ \ {r}, !.rows = @ \ Group(r)] \in DigestSet
           /\ [digest EXCEPT !.left = @ \ {r}, !.rows = @ \ Group(r)].rows = digest.rows \ Group(r)
           /\ GroupDone(r) \in DigestSet /\ GroupDone(r).rows \subseteq digest.rows \ Group(r)
<1>1. digest \in DigestSet
  BY DEF NotesTypeOK, DigestSet
<1>2. NoDigest \in DigestSet /\ NoDigest.rows = {}
  BY DEF NoDigest, DigestSet
<1>3. /\ [digest EXCEPT !.left = digest.left \ {r}, !.now = r] \in DigestSet
      /\ [digest EXCEPT !.left = digest.left \ {r}, !.now = r].rows = digest.rows
  BY <1>1 DEF DigestSet
<1>4. /\ [digest EXCEPT !.left = digest.left \ {r}, !.rows = digest.rows \ Group(r)] \in DigestSet
      /\ [digest EXCEPT !.left = digest.left \ {r}, !.rows = digest.rows \ Group(r)].rows = digest.rows \ Group(r)
  BY <1>1 DEF DigestSet
<1>5. /\ [digest EXCEPT !.now = NoOne, !.rows = digest.rows \ Group(r)] \in DigestSet
      /\ [digest EXCEPT !.now = NoOne, !.rows = digest.rows \ Group(r)].rows = digest.rows \ Group(r)
  BY <1>1 DEF DigestSet
<1>6. GroupDone(r) \in DigestSet /\ GroupDone(r).rows \subseteq digest.rows \ Group(r)
  BY <1>2, <1>5 DEF GroupDone
<1> QED BY <1>2, <1>3, <1>4, <1>6

LEMMA NotesTypeStep == NotesTypeOK /\ [NotesNext]_noteVars => NotesTypeOK'
<1> SUFFICES ASSUME NotesTypeOK, [NotesNext]_noteVars PROVE NotesTypeOK'
  OBVIOUS
<1> USE MailedNowTyped DEF NotesTypeOK
<1>1. ASSUME NEW e \in Events, NEW R \in SUBSET Recipients, EventHappens(e, R) PROVE NotesTypeOK'
  BY <1>1 DEF EventHappens
<1>2. ASSUME NEW e \in Events, NEW r \in Recipients, NotifyOne(e, r) PROVE NotesTypeOK'
  <2>1. <<e, r>> \in Notes
    BY DEF Notes
  <2> QED BY <1>2, <2>1 DEF NotifyOne, Written
<1>3. ASSUME NEW n \in Notes, MailSettles(n) \/ MailUnconfirmed(n) PROVE NotesTypeOK'
  BY <1>3 DEF MailSettles, MailUnconfirmed
<1>4. CASE DigestSelects
  <2>1. \A n \in Notes : To(n) \in Recipients
    BY DEF Notes, To
  <2> QED BY <1>4, <2>1 DEF DigestSelects
<1>5. ASSUME NEW r \in Recipients, DigestMails(r) \/ DigestSettles(r) \/ DigestUnconfirmed(r)
      PROVE  NotesTypeOK'
  <2>1. digest' \in DigestSet
    <3>1. \/ digest' = NoDigest \/ digest' = GroupDone(r)
          \/ digest' = [digest EXCEPT !.left = @ \ {r}, !.now = r]
          \/ digest' = [digest EXCEPT !.left = @ \ {r}, !.rows = @ \ Group(r)]
      BY <1>5, Zenon DEF DigestMails, DigestSettles, DigestUnconfirmed
    <3>2. /\ NoDigest \in DigestSet /\ GroupDone(r) \in DigestSet
          /\ [digest EXCEPT !.left = @ \ {r}, !.now = r] \in DigestSet
          /\ [digest EXCEPT !.left = @ \ {r}, !.rows = @ \ Group(r)] \in DigestSet
      BY DigestShapes, Zenon
    <3> QED BY <3>1, <3>2, Zenon
  <2>2. note' \in {note, Stamped(Group(r))} /\ mailed' \in {mailed, MailedNow(Group(r))}
    BY <1>5 DEF DigestMails, DigestSettles, DigestUnconfirmed
  <2> QED BY <1>5, <2>1, <2>2 DEF DigestMails, DigestSettles, DigestUnconfirmed, DigestSet, Group
<1>7. ASSUME NEW r \in Recipients, AddressGoes(r) \/ \E m \in Modes : SetNotificationMode(r, m)
      PROVE  NotesTypeOK'
  BY <1>7 DEF AddressGoes, SetNotificationMode
<1>8. CASE MailServerTurns
  BY <1>8 DEF MailServerTurns
<1>9. CASE NotesRestart
  BY <1>9, MaxRestartsAssumption DEF NotesRestart, NoDigest, Group
<1>10. CASE UNCHANGED noteVars
  BY <1>10 DEF noteVars
<1> QED
  BY <1>1, <1>2, <1>3, <1>4, <1>5, <1>7, <1>8, <1>9, <1>10 DEF NotesNext, DigestStep

\* What a mail does to a row.
LEMMA MailedNowRow ==
    ASSUME NotesTypeOK, NEW N, NEW n \in Notes
    PROVE  /\ n \notin N => MailedNow(N)[n] = mailed[n] /\ Stamped(N)[n] = note[n]
           /\ n \in N => Stamped(N)[n] = "sent" /\ (mailed[n] = 0 => MailedNow(N)[n] = 1)
BY DEF NotesTypeOK, MailedNow, Stamped

LEMMA RowsStepOn == NotesInv /\ [NotesNext]_noteVars => \A n \in Notes : RowOK(n)'
<1> SUFFICES ASSUME NotesInv, [NotesNext]_noteVars, NEW n \in Notes PROVE RowOK(n)'
  OBVIOUS
<1>1. NotesTypeOK /\ RowOK(n)
  BY DEF NotesInv
<1>2. ASSUME NEW e \in Events, NEW R \in SUBSET Recipients, EventHappens(e, R) PROVE RowOK(n)'
  BY <1>1, <1>2 DEF EventHappens, RowOK
<1>3. ASSUME NEW e \in Events, NEW r \in Recipients, NotifyOne(e, r) PROVE RowOK(n)'
  <2>1. <<e, r>> \in Notes /\ note[<<e, r>>] = "absent"
    BY <1>3 DEF Notes, NotifyOne, NotesInv
  <2>2. UNCHANGED <<digest, mailed, raced, unsure>>
    BY <1>3 DEF NotifyOne
  <2>3. CASE n # <<e, r>>
    <3>1. note'[n] = note[n] /\ (n \in sending' <=> n \in sending)
      BY <1>1, <1>3, <2>1, <2>3 DEF NotifyOne, NotesTypeOK
    <3> QED BY <1>1, <2>2, <3>1 DEF RowOK
  <2>4. CASE n = <<e, r>>
    <3>1. note'[n] = Written(r) /\ (n \in sending' => n \in sending \/ mode[r] = "immediate")
      BY <1>1, <1>3, <2>1, <2>4 DEF NotifyOne, NotesTypeOK
    <3>2. /\ note'[n] \in {"pending", "suppressed"}
          /\ n \in sending' => note'[n] = "pending"
          /\ n \notin digest.rows /\ mailed[n] = 0
      BY <1>1, <2>1, <2>4, <3>1 DEF RowOK, Written
    <3> QED BY <2>2, <3>2 DEF RowOK
  <2> QED BY <2>3, <2>4
<1>4. ASSUME NEW m \in Notes, MailSettles(m) \/ MailUnconfirmed(m) PROVE RowOK(n)'
  <2>1. /\ UNCHANGED <<digest, raced>> /\ m \in sending /\ sending' = sending \ {m}
        /\ \/ mailed' = MailedNow({m}) /\ note' = Stamped({m}) /\ unsure' = unsure
           \/ mailed' = mailed /\ note' = note /\ unsure' = unsure
           \/ mailed' = MailedNow({m}) /\ note' = note /\ unsure' = unsure \cup {m}
    BY <1>4 DEF MailSettles, MailUnconfirmed
  <2>2. CASE n # m
    <3>1. note'[n] = note[n] /\ mailed'[n] = mailed[n] /\ (n \in unsure' <=> n \in unsure)
      BY <1>1, <2>1, <2>2, MailedNowRow
    <3> QED BY <1>1, <2>1, <2>2, <3>1 DEF RowOK
  <2>3. CASE n = m
    <3>1. note[n] \notin {"absent", "suppressed"}
      BY <1>1, <2>1, <2>3 DEF RowOK
    <3>2. CASE mailed' = MailedNow({m}) /\ note' = Stamped({m}) /\ unsure' = unsure
      BY <1>1, <2>1, <2>3, <3>1, <3>2, MailedNowRow DEF RowOK
    <3>3. CASE mailed' = mailed /\ note' = note /\ unsure' = unsure
      BY <1>1, <2>1, <2>3, <3>3 DEF RowOK
    <3>4. CASE note' = note /\ n \in unsure'
      BY <2>1, <2>3, <3>1, <3>4 DEF RowOK
    <3> QED BY <2>1, <2>3, <3>2, <3>3, <3>4
  <2> QED BY <2>2, <2>3
<1>5. CASE DigestSelects
  <2>1. /\ UNCHANGED <<note, sending, mailed, unsure>>
        /\ n \in digest'.rows <=> note[n] = "pending"
        /\ raced \subseteq raced'
        /\ n \in digest'.rows /\ n \in sending => n \in raced'
    BY <1>5 DEF DigestSelects, Due
  <2> QED BY <1>1, <2>1 DEF RowOK
<1>6. ASSUME NEW r \in Recipients, DigestMails(r) PROVE RowOK(n)'
  <2>1. UNCHANGED <<sending, mailed, raced, unsure>>
    BY <1>6 DEF DigestMails
  <2>2. CASE note' = note /\ digest'.rows = digest.rows
    BY <1>1, <2>1, <2>2 DEF RowOK
  <2>3. CASE note' = Stamped(Group(r)) /\ digest'.rows \subseteq digest.rows \ Group(r)
    <3>1. n \in Group(r) => n \in digest.rows /\ n \notin digest'.rows
      BY <2>3 DEF Group
    <3> QED BY <1>1, <2>1, <2>3, <3>1, MailedNowRow DEF RowOK
  <2>4. \/ note' = note /\ digest'.rows = digest.rows
        \/ note' = Stamped(Group(r)) /\ digest'.rows \subseteq digest.rows \ Group(r)
    <3>1. CASE digest' = NoDigest /\ note' = Stamped(Group(r))
      BY <1>1, <3>1, DigestShapes
    <3>2. CASE digest' = [digest EXCEPT !.left = @ \ {r}, !.now = r] /\ note' = note
      BY <1>1, <3>2, DigestShapes, Zenon
    <3>3. CASE /\ digest' = [digest EXCEPT !.left = @ \ {r}, !.rows = @ \ Group(r)]
               /\ note' = Stamped(Group(r))
      <4>1. digest'.rows = digest.rows \ Group(r)
        BY <1>1, <3>3, DigestShapes, Zenon
      <4> QED BY <3>3, <4>1
    <3> QED BY <1>6, <3>1, <3>2, <3>3, ZenonT(30) DEF DigestMails
  <2> QED BY <2>2, <2>3, <2>4
<1>7. ASSUME NEW r \in Recipients, DigestSettles(r) \/ DigestUnconfirmed(r) PROVE RowOK(n)'
  <2>1. /\ UNCHANGED <<sending, raced>> /\ digest' = GroupDone(r)
        /\ \/ mailed' = MailedNow(Group(r)) /\ note' = Stamped(Group(r)) /\ unsure' = unsure
           \/ mailed' = mailed /\ note' = note /\ unsure' = unsure
           \/ mailed' = MailedNow(Group(r)) /\ note' = note /\ unsure' = unsure \cup Group(r)
    BY SMTT(30), <1>7 DEF DigestSettles, DigestUnconfirmed
  <2>2. digest'.rows \subseteq digest.rows \ Group(r)
    BY <1>1, <2>1, DigestShapes
  <2>3. n \in Group(r) => n \in digest.rows /\ n \notin digest'.rows
    BY <2>2 DEF Group
  <2> QED BY <1>1, <2>1, <2>2, <2>3, MailedNowRow DEF RowOK
<1>8. CASE NotesRestart
  <2> DEFINE awaited == sending \cup IF digest.now = NoOne THEN {} ELSE Group(digest.now)
  <2>1. /\ note' = note /\ raced' = raced /\ sending' = {} /\ digest'.rows = {}
        /\ \/ mailed' = MailedNow(awaited) /\ unsure' = unsure \cup awaited
           \/ mailed' = mailed /\ unsure' = unsure
    BY <1>8 DEF NotesRestart, NoDigest
  <2>2. n \in awaited => n \in sending \/ n \in digest.rows
    BY DEF Group
  <2>3. n \notin awaited => MailedNow(awaited)[n] = mailed[n]
    BY <1>1, MailedNowRow
  <2> HIDE DEF awaited
  <2> QED BY <1>1, <2>1, <2>2, <2>3 DEF RowOK
<1>9. CASE UNCHANGED <<note, sending, digest, mailed, raced, unsure>>
  BY <1>1, <1>9 DEF RowOK
<1> QED
  BY <1>2, <1>3, <1>4, <1>5, <1>6, <1>7, <1>8, <1>9
  DEF NotesNext, DigestStep, AddressGoes, SetNotificationMode, MailServerTurns, noteVars

LEMMA TellingStep ==
    ASSUME NotesInv, [NotesNext]_noteVars, NEW e \in Events, NEW r \in Recipients, r \in telling'[e]
    PROVE  note'[<<e, r>>] = "absent"
<1>1. NotesTypeOK /\ <<e, r>> \in Notes /\ RowOK(<<e, r>>)
  BY DEF NotesInv, Notes
<1>2. ASSUME NEW f \in Events, NEW R \in SUBSET Recipients, EventHappens(f, R)
      PROVE  note'[<<e, r>>] = "absent"
  BY <1>1, <1>2 DEF EventHappens, NotesInv, NotesTypeOK
<1>3. ASSUME NEW f \in Events, NEW q \in Recipients, NotifyOne(f, q)
      PROVE  note'[<<e, r>>] = "absent"
  BY <1>1, <1>3 DEF NotifyOne, NotesInv, NotesTypeOK
<1>4. ASSUME telling' = telling, \A n \in Notes : note[n] = "absent" => note'[n] = "absent"
      PROVE  note'[<<e, r>>] = "absent"
  BY <1>1, <1>4 DEF NotesInv
<1>5. ASSUME NEW m \in Notes, MailSettles(m) \/ MailUnconfirmed(m) PROVE note'[<<e, r>>] = "absent"
  <2>1. note[m] # "absent"
    BY <1>5 DEF NotesInv, RowOK, MailSettles, MailUnconfirmed
  <2>2. note' = note \/ note' = Stamped({m})
    BY <1>5 DEF MailSettles, MailUnconfirmed
  <2>3. telling' = telling
    BY <1>5 DEF MailSettles, MailUnconfirmed
  <2> QED BY <1>1, <1>4, <2>1, <2>2, <2>3, MailedNowRow
<1>6. ASSUME NEW q \in Recipients, DigestMails(q) \/ DigestSettles(q) \/ DigestUnconfirmed(q)
      PROVE  note'[<<e, r>>] = "absent"
  <2>1. telling' = telling /\ (note' = note \/ note' = Stamped(Group(q)))
    BY <1>6 DEF DigestMails, DigestSettles, DigestUnconfirmed
  <2>2. \A n \in Group(q) : n \in Notes => note[n] # "absent"
    BY DEF NotesInv, RowOK, Group
  <2> QED BY <1>1, <1>4, <2>1, <2>2, MailedNowRow
<1>7. CASE NotesRestart
  BY <1>7 DEF NotesRestart
<1>8. CASE UNCHANGED <<telling, note>>
  BY <1>8 DEF NotesInv
<1> QED
  BY <1>2, <1>3, <1>5, <1>6, <1>7, <1>8
  DEF NotesNext, DigestStep, DigestSelects, AddressGoes, SetNotificationMode, MailServerTurns, noteVars

\* The invariant of the notifications, inductive row by row.
THEOREM NotesCorrect == NotesSpec => []NotesInv
<1>1. NotesInv /\ [NotesNext]_noteVars => NotesInv'
  <2> SUFFICES ASSUME NotesInv, [NotesNext]_noteVars PROVE NotesInv'
    OBVIOUS
  <2>1. \A e \in Events, r \in Recipients : r \in telling'[e] => note'[<<e, r>>] = "absent"
    BY TellingStep
  <2>2. NotesTypeOK'
    BY NotesTypeStep DEF NotesInv
  <2> QED BY <2>1, <2>2, RowsStepOn DEF NotesInv
<1> QED BY <1>1, NotesStart, PTL DEF NotesSpec

\* Nobody is mailed twice about one thing, whatever digests, mails, refusals and
\* restarts do, outside the two windows the property names.
THEOREM MailedOnce == NotesSpec => []MailedOnceUnlessRaced
<1>1. NotesInv => MailedOnceUnlessRaced
  BY DEF NotesInv, RowOK, MailedOnceUnlessRaced
<1> QED BY <1>1, NotesCorrect, PTL

\* Rows, mails in flight and the digest stay of their kinds.
THEOREM NotesTypeCorrect == NotesSpec => []NotesTypeOK
<1>1. NotesInv => NotesTypeOK
  BY DEF NotesInv
<1> QED BY <1>1, NotesCorrect, PTL

\* A row written while mail was off is never mailed, by either way.
THEOREM SuppressedStaySilent == NotesSpec => SuppressedNeverMailed
<1>1. ASSUME NotesInv, NotesInv', [NotesNext]_noteVars, NEW n \in Notes, note[n] = "suppressed"
      PROVE  note'[n] = "suppressed" /\ mailed'[n] = mailed[n] /\ n \notin sending'
  <2>1. NotesTypeOK /\ n \notin sending /\ n \notin digest.rows
    BY <1>1 DEF NotesInv, RowOK
  <2>2. ASSUME NEW e \in Events, NEW r \in Recipients, NotifyOne(e, r)
        PROVE  note'[n] = "suppressed" /\ mailed' = mailed
    <3>1. <<e, r>> # n
      BY <1>1, <2>2 DEF NotifyOne, NotesInv
    <3> QED BY <1>1, <2>1, <2>2, <3>1 DEF NotifyOne, NotesTypeOK
  <2>3. ASSUME NEW N, n \notin N, note' \in {note, Stamped(N)}, mailed' \in {mailed, MailedNow(N)}
        PROVE  note'[n] = "suppressed" /\ mailed'[n] = mailed[n]
    BY <1>1, <2>1, <2>3, MailedNowRow
  <2>4. ASSUME NEW m \in Notes, MailSettles(m) \/ MailUnconfirmed(m)
        PROVE  note'[n] = "suppressed" /\ mailed'[n] = mailed[n]
    BY <2>1, <2>3, <2>4 DEF MailSettles, MailUnconfirmed
  <2>5. ASSUME NEW r \in Recipients, DigestMails(r) \/ DigestSettles(r) \/ DigestUnconfirmed(r)
        PROVE  note'[n] = "suppressed" /\ mailed'[n] = mailed[n]
    <3>1. n \notin Group(r)
      BY <2>1 DEF Group
    <3>2. note' \in {note, Stamped(Group(r))} /\ mailed' \in {mailed, MailedNow(Group(r))}
      BY <2>5 DEF DigestMails, DigestSettles, DigestUnconfirmed
    <3> QED BY <2>3, <3>1, <3>2
  <2>6. ASSUME NotesRestart PROVE note'[n] = "suppressed" /\ mailed'[n] = mailed[n]
    <3> DEFINE awaited == sending \cup IF digest.now = NoOne THEN {} ELSE Group(digest.now)
    <3>1. n \notin awaited /\ note' = note /\ mailed' \in {mailed, MailedNow(awaited)}
      BY <2>1, <2>6 DEF NotesRestart, Group
    <3> HIDE DEF awaited
    <3> QED BY <2>3, <3>1
  <2>7. ASSUME UNCHANGED <<note, mailed>> PROVE note'[n] = "suppressed" /\ mailed'[n] = mailed[n]
    BY <1>1, <2>7
  <2>8. note'[n] = "suppressed" /\ mailed'[n] = mailed[n]
    BY <1>1, <2>2, <2>4, <2>5, <2>6, <2>7
    DEF NotesNext, DigestStep, EventHappens, DigestSelects, AddressGoes, SetNotificationMode,
        MailServerTurns, noteVars
  <2> QED BY <1>1, <2>8 DEF NotesInv, RowOK
<1>2. NotesInv /\ NotesInv' /\ [NotesNext]_noteVars =>
        [\A n \in Notes : note[n] = "suppressed" =>
           note'[n] = "suppressed" /\ mailed'[n] = mailed[n] /\ n \notin sending']_noteVars
  BY <1>1
<1> QED BY <1>2, NotesCorrect, PTL DEF NotesSpec, SuppressedNeverMailed

(***************************************************************************)
(* Heartbeats, for any number of beats and files and any length of the     *)
(* queue: a beat is at one place on its way, so that it is counted once.   *)
(***************************************************************************)

\* Where a beat may be under way.
Under(p) == Range(posts[p])

\* A beat is at one place at a time, and none is anywhere before it is made.
OnePlace ==
    /\ \A n \in Range(backlog) : n <= Len(made)
    /\ \A p \in Posters : \A n \in Under(p) : n <= Len(made) /\ n \notin Range(backlog)
    /\ \A p, q \in Posters : p # q => \A n \in Under(p) : n \notin Under(q)
    /\ \A n \in Beats : n > Len(made) => stored[n] = 0 /\ n \notin dropped

BeatsInv == HeartbeatsTypeOK /\ OnePlace /\ BeatsCountedOnce

LEMMA BeatsStart == HeartbeatsInit => BeatsInv
<1> SUFFICES ASSUME HeartbeatsInit PROVE BeatsInv
  OBVIOUS
<1>1. Range(backlog) = {} /\ \A p \in Posters : Under(p) = {}
  BY DEF HeartbeatsInit, Range, Under
<1>2. HeartbeatsTypeOK
  BY QueueAssumption DEF HeartbeatsInit, HeartbeatsTypeOK, Beats
<1> QED BY <1>1, <1>2 DEF HeartbeatsInit, BeatsInv, OnePlace, BeatsCountedOnce, Beats, Made

LEMMA Places ==
    ASSUME NEW n
    PROVE  /\ n \in OnItsWay <=> n \in Range(backlog) \/ \E p \in Posters : n \in Under(p)
           /\ n \in OnItsWay' <=> n \in Range(backlog)' \/ \E p \in Posters : n \in Under(p)'
BY DEF OnItsWay, Under

\* Every list of beats holds beats.
LEMMA BeatsAreBeats ==
    ASSUME HeartbeatsTypeOK
    PROVE  /\ Range(backlog) \subseteq Beats /\ \A p \in Posters : Under(p) \subseteq Beats
           /\ Beats \subseteq Nat /\ Len(made) \in Nat /\ Made \subseteq Beats
           /\ \A n \in Beats : stored[n] \in 0..2 /\ (stored[n] = 0 \/ stored[n] > 0)
<1>1. Len(made) \in Nat /\ Len(made) <= MaxBeats
  BY DEF HeartbeatsTypeOK
<1>2. Beats \subseteq Nat /\ Made \subseteq Beats
  BY <1>1, QueueAssumption DEF Beats, Made
<1>3. Range(backlog) \subseteq Beats /\ \A p \in Posters : Under(p) \subseteq Beats
  BY RangeOfSeq DEF HeartbeatsTypeOK, Under
<1>4. \A n \in Beats : stored[n] \in 0..2
  BY DEF HeartbeatsTypeOK
<1> QED BY <1>1, <1>2, <1>3, <1>4

\* The queue is cut at its old end only.
LEMMA NewestKept ==
    ASSUME NEW s \in Seq(Beats)
    PROVE  Newest(s) \in Seq(Beats) /\ Range(Newest(s)) \subseteq Range(s)
<1>1. CASE Len(s) > MaxQueue
  <2> DEFINE t == SubSeq(s, Len(s) - MaxQueue + 1, Len(s))
  <2>1. Len(s) \in Nat /\ MaxQueue \in Nat
    BY QueueAssumption
  <2>2. t \in Seq(Beats) /\ Len(t) = MaxQueue /\ \A i \in 1..MaxQueue : t[i] = s[Len(s) - MaxQueue + i]
    BY <1>1, <2>1, \A i \in 1..Len(s) : s[i] \in Beats, SubSeqProperties
  <2>3. \A i \in 1..MaxQueue : Len(s) - MaxQueue + i \in 1..Len(s)
    BY <1>1, <2>1
  <2> HIDE DEF t
  <2>4. Range(t) = {t[i] : i \in 1..MaxQueue} /\ Range(s) = {s[i] : i \in 1..Len(s)}
    BY SMTT(30), <2>2, RangeEquality
  <2>5. Range(t) \subseteq Range(s)
    BY <2>2, <2>3, <2>4
  <2> QED BY <1>1, <2>2, <2>5 DEF Newest, t
<1>2. CASE ~(Len(s) > MaxQueue)
  BY <1>2 DEF Newest
<1> QED BY <1>1, <1>2

\* What does not fit is given up, and of that only what has no row is lost.
LEMMA KeepEffect ==
    ASSUME HeartbeatsTypeOK, NEW s \in Seq(Beats), KeepNewest(s)
    PROVE  /\ backlog' \in Seq(Beats) /\ Range(backlog)' \subseteq Range(s)
           /\ lost \subseteq lost' /\ lost' \subseteq Beats
           /\ \A n \in Range(s) : n \in Range(backlog)' \/ stored[n] > 0 \/ n \in lost'
<1>1. backlog' = Newest(s) /\ lost' = lost \cup {n \in Range(s) \ Range(Newest(s)) : stored[n] = 0}
  BY DEF KeepNewest, GiveUp
<1>2. Range(s) \subseteq Beats /\ Newest(s) \in Seq(Beats) /\ Range(Newest(s)) \subseteq Range(s)
  BY NewestKept, RangeOfSeq
<1>3. lost \subseteq Beats /\ \A n \in Beats : stored[n] = 0 \/ stored[n] > 0
  BY BeatsAreBeats DEF HeartbeatsTypeOK
<1> QED BY <1>1, <1>2, <1>3

\* A batch goes back before what came meanwhile, less what the queue has no room
\* for; a queue that ended takes nothing back.
LEMMA PutBackEffect ==
    ASSUME HeartbeatsTypeOK, NEW p \in Posters, PutBack(p)
    PROVE  /\ backlog' \in Seq(Beats) /\ posts' \in [Posters -> Seq(Beats)]
           /\ Range(backlog)' \subseteq Range(backlog) \cup Under(p)
           /\ Under(p)' = {} /\ \A q \in Posters : q # p => Under(q)' = Under(q)
           /\ lost \subseteq lost' /\ lost' \subseteq Beats
           /\ \A n \in Range(backlog) \cup Under(p) :
                  n \in Range(backlog)' \/ stored[n] > 0 \/ n \in lost'
<1>1. posts[p] \in Seq(Beats) /\ backlog \in Seq(Beats)
  BY DEF HeartbeatsTypeOK
<1>2. posts[p] \o backlog \in Seq(Beats) /\ Range(posts[p] \o backlog) = Range(backlog) \cup Under(p)
  BY <1>1, RangeConcatenation, ConcatProperties DEF Under
<1>3. /\ posts' \in [Posters -> Seq(Beats)]
      /\ Under(p)' = {} /\ \A q \in Posters : q # p => Under(q)' = Under(q)
  BY DEF PutBack, HeartbeatsTypeOK, Range, Under
<1>4. CASE p = "timer"
  <2>1. KeepNewest(posts[p] \o backlog)
    BY <1>4 DEF PutBack
  <2> QED BY <1>2, <1>3, <2>1, KeepEffect
<1>5. CASE p # "timer"
  <2>1. lost' = lost \cup {n \in Under(p) : stored[n] = 0} /\ UNCHANGED backlog
    BY <1>5 DEF PutBack, GiveUp, Under
  <2>2. Under(p) \subseteq Beats /\ lost \subseteq Beats
    BY BeatsAreBeats DEF HeartbeatsTypeOK
  <2>3. \A n \in Beats : stored[n] = 0 \/ stored[n] > 0
    BY BeatsAreBeats
  <2> QED BY <1>1, <1>3, <2>1, <2>2, <2>3
<1> QED BY <1>4, <1>5

\* Why the panel may drop a beat.
Droppable(n) ==
    \/ n <= overdue
    \/ ~made[n].isWrite /\ \E m \in Made : made[m].file = made[n].file /\ stored[m] > 0

\* What the panel makes of a batch.
LEMMA InsertEffect ==
    ASSUME HeartbeatsTypeOK, OnePlace, NEW p \in Posters, InsertHeartbeats(posts[p]), made' = made
    PROVE  /\ stored' \in [Beats -> 0..2] /\ overdue' \in overdue..aged
           /\ dropped \subseteq dropped' /\ dropped' \subseteq dropped \cup Under(p)
           /\ \A n \in Beats : stored'[n] >= stored[n]
           /\ \A n \in Beats \ Under(p) : stored'[n] = stored[n]
           /\ \A n \in Under(p) : /\ stored'[n] > 0 \/ n \in dropped'
                                  /\ stored[n] = 0 => stored'[n] <= 1
                                  /\ stored'[n] > 1 => stored[n] > 1 \/ made[n].isWrite \/ n <= aged
           /\ \A n \in dropped' \ dropped : Droppable(n)'
<1>1. PICK old \in {overdue} \cup {n \in Under(p) : n \in overdue..aged /\ n <= MaxOverdue} :
        /\ overdue' = old
        /\ stored' = [n \in Beats |-> IF n \in {m \in Under(p) : m > old /\ ~IsDuplicate(m)} /\ stored[n] < 2
                                      THEN stored[n] + 1 ELSE stored[n]]
        /\ dropped' = dropped \cup {n \in Under(p) \ {m \in Under(p) : m > old /\ ~IsDuplicate(m)} : stored[n] = 0}
  BY DEF InsertHeartbeats, Under
<1>2. Under(p) \subseteq Beats /\ Beats \subseteq Nat /\ stored \in [Beats -> 0..2]
  BY BeatsAreBeats DEF HeartbeatsTypeOK
<1>3. old \in overdue..aged /\ aged \in Nat /\ overdue \in Nat
  <2>1. aged \in Nat /\ overdue \in 0..aged
    BY DEF HeartbeatsTypeOK
  <2> QED BY <1>1, <2>1
<1>4. \A n \in Under(p) : n \in Made /\ n \in Nat
  BY <1>2 DEF OnePlace, Beats, Made
<1> DEFINE ins == {m \in Under(p) : m > old /\ ~IsDuplicate(m)}
<1>5. /\ stored' = [n \in Beats |-> IF n \in ins /\ stored[n] < 2 THEN stored[n] + 1 ELSE stored[n]]
      /\ dropped' = dropped \cup {n \in Under(p) \ ins : stored[n] = 0}
      /\ ins \subseteq Under(p)
      /\ \A n \in Under(p) : n \in ins <=> n > old /\ ~IsDuplicate(n)
  BY <1>1
<1> HIDE DEF ins
<1>6. /\ stored' \in [Beats -> 0..2] /\ \A n \in Beats : stored'[n] >= stored[n]
      /\ \A n \in Beats \ Under(p) : stored'[n] = stored[n]
      /\ \A n \in Beats : stored[n] = 0 => stored'[n] <= 1
      /\ \A n \in Beats : stored'[n] > 1 => stored[n] > 1 \/ (n \in ins /\ stored[n] > 0)
      /\ \A n \in ins : stored'[n] > 0
  <2>1. /\ \A n \in ins : n \in Beats /\ n \in Under(p)
        /\ \A n \in Beats : stored[n] \in 0..2
    BY <1>2, <1>5
  <2>2. \A n \in Beats : stored'[n] = IF n \in ins /\ stored[n] < 2 THEN stored[n] + 1 ELSE stored[n]
    BY <1>5
  <2>3. \A n \in Beats : stored'[n] \in 0..2 /\ stored'[n] >= stored[n]
    BY <2>1, <2>2
  <2>4. stored' \in [Beats -> 0..2]
    BY <1>5, <2>3
  <2> QED BY <2>1, <2>2, <2>3, <2>4
<1>7. \A n \in Under(p) : stored'[n] > 0 \/ n \in dropped'
  <2> SUFFICES ASSUME NEW n \in Under(p), n \notin ins, ~(stored'[n] > 0) PROVE n \in dropped'
    BY <1>6
  <2>1. stored[n] \in 0..2 /\ stored'[n] \in 0..2 /\ stored'[n] >= stored[n]
    BY <1>2, <1>6
  <2>2. stored[n] = 0
    BY <2>1
  <2> QED BY <1>5, <2>2
<1>8. ASSUME NEW n \in Under(p), stored'[n] > 1, ~(stored[n] > 1), ~made[n].isWrite
      PROVE  n <= aged
  <2>1. n \in Made /\ n \in Nat /\ stored[n] > 0 /\ ~IsDuplicate(n)
    BY <1>2, <1>4, <1>5, <1>6, <1>8
  <2>2. ~(n > aged)
    BY <1>8, <2>1 DEF IsDuplicate
  <2> QED BY <1>3, <2>1, <2>2
<1>9. ASSUME NEW n \in dropped' \ dropped PROVE Droppable(n)'
  <2>1. n \in Under(p) /\ (~(n > old) \/ IsDuplicate(n)) /\ n \in Nat /\ old \in Int
    BY <1>3, <1>4, <1>5, <1>9
  <2>2. CASE ~(n > old)
    <3>1. n <= overdue'
      BY <1>1, <2>1, <2>2
    <3> QED BY <3>1 DEF Droppable
  <2>3. CASE IsDuplicate(n)
    <3>1. PICK m \in Made : made[m].file = made[n].file /\ stored[m] > 0
      BY <2>3 DEF IsDuplicate
    <3>2. m \in Beats
      BY <3>1, BeatsAreBeats
    <3>3. stored'[m] > 0
      BY <1>2, <1>6, <3>1, <3>2
    <3> QED BY <2>3, <3>1, <3>3 DEF IsDuplicate, Droppable, Made
  <2> QED BY <2>1, <2>2, <2>3
<1>10. overdue' \in overdue..aged /\ dropped \subseteq dropped' /\ dropped' \subseteq dropped \cup Under(p)
  BY <1>1, <1>3, <1>5
<1>11. \A n \in Under(p) : stored[n] = 0 => stored'[n] <= 1
  BY <1>2, <1>6
<1> QED BY <1>6, <1>7, <1>8, <1>9, <1>10, <1>11

\* The timer takes the queue: into its post, or nowhere.
LEMMA TakeEffect ==
    ASSUME HeartbeatsTypeOK, TimerFlushes \/ FlushThrows
    PROVE  /\ backlog' \in Seq(Beats) /\ posts' \in [Posters -> Seq(Beats)] /\ Range(backlog)' = {}
           /\ \A p \in Posters : p # "timer" => Under(p)' = Under(p)
           /\ Under("timer") = {} /\ Under("timer")' \subseteq Range(backlog)
           /\ lost \subseteq lost' /\ lost' \subseteq Beats
           /\ \A n \in Range(backlog) : n \in Under("timer")' \/ stored[n] > 0 \/ n \in lost'
<1>0. <<>> \in Seq(Beats)
  OBVIOUS
<1>1. backlog' = <<>> /\ Range(<<>>) = {} /\ posts["timer"] = <<>> /\ "timer" \in Posters
  BY DEF TimerFlushes, FlushThrows, TimerTakes, Range, Posters
<1>2. Range(backlog) \subseteq Beats /\ lost \subseteq Beats /\ \A n \in Beats : stored[n] = 0 \/ stored[n] > 0
  BY BeatsAreBeats DEF HeartbeatsTypeOK
<1>3. CASE TimerFlushes
  BY <1>0, <1>1, <1>2, <1>3 DEF TimerFlushes, Under, HeartbeatsTypeOK
<1>4. CASE FlushThrows
  BY <1>0, <1>1, <1>2, <1>4 DEF FlushThrows, GiveUp, Under, HeartbeatsTypeOK
<1> QED BY <1>3, <1>4

\* A queue that ends leaves its posts behind.
LEMMA RestartEffect ==
    ASSUME HeartbeatsTypeOK, EditorRestarts
    PROVE  /\ backlog' = <<>> /\ posts' \in [Posters -> Seq(Beats)] /\ Range(backlog)' = {}
           /\ Under("timer")' = {} /\ Under("left")' = Under("timer")
           /\ Under("dispose")' \subseteq Range(backlog)
           /\ Under("left") = {} /\ Under("dispose") = {}
           /\ lost \subseteq lost' /\ lost' \subseteq Beats
           /\ \A n \in Range(backlog) : n \in Under("dispose")' \/ stored[n] > 0 \/ n \in lost'
<1>1. PICK last \in {backlog, <<>>} :
        /\ posts' = [posts EXCEPT !["timer"] = <<>>, !["left"] = posts["timer"], !["dispose"] = last]
        /\ lost' = lost \cup {n \in Range(backlog) \ Range(last) : stored[n] = 0}
  BY DEF EditorRestarts, GiveUp
<1>2. backlog' = <<>> /\ Range(<<>>) = {} /\ posts["left"] = <<>> /\ posts["dispose"] = <<>>
  BY DEF EditorRestarts, Range
<1>3. Range(backlog) \subseteq Beats /\ lost \subseteq Beats /\ \A n \in Beats : stored[n] = 0 \/ stored[n] > 0
  BY BeatsAreBeats DEF HeartbeatsTypeOK
<1>4. backlog \in Seq(Beats) /\ posts["timer"] \in Seq(Beats) /\ <<>> \in Seq(Beats)
  BY DEF HeartbeatsTypeOK, Posters
<1>5. posts' \in [Posters -> Seq(Beats)]
  BY <1>1, <1>4 DEF Posters, HeartbeatsTypeOK
<1>6. Range(last) \subseteq Range(backlog)
  BY <1>1, <1>2
<1>7. /\ Under("timer")' = {} /\ Under("left")' = Under("timer") /\ Under("dispose")' = Range(last)
      /\ Under("left") = {} /\ Under("dispose") = {}
  BY <1>1, <1>2 DEF Under, Posters, HeartbeatsTypeOK
<1> QED BY <1>1, <1>2, <1>3, <1>5, <1>6, <1>7

LEMMA EnqueueEffect ==
    ASSUME HeartbeatsTypeOK, NEW f \in Files, NEW isWrite \in BOOLEAN, Enqueue(f, isWrite)
    PROVE  /\ made' \in Seq([file : Files, isWrite : BOOLEAN])
           /\ Len(made') = Len(made) + 1 /\ Len(made') <= MaxBeats
           /\ \A n \in Made : made'[n] = made[n]
           /\ backlog' \in Seq(Beats)
           /\ Range(backlog)' \subseteq Range(backlog) \cup {Len(made')}
           /\ lost \subseteq lost' /\ lost' \subseteq Beats
           /\ \A n \in Range(backlog) \cup {Len(made')} :
                  n \in Range(backlog)' \/ stored[n] > 0 \/ n \in lost'
<1>1. /\ made \in Seq([file : Files, isWrite : BOOLEAN]) /\ backlog \in Seq(Beats)
      /\ Len(made) \in Nat /\ Len(made) < MaxBeats
      /\ made' = Append(made, [file |-> f, isWrite |-> isWrite])
  BY DEF Enqueue, HeartbeatsTypeOK
<1>2. /\ made' \in Seq([file : Files, isWrite : BOOLEAN]) /\ Len(made') = Len(made) + 1
      /\ \A n \in Made : made'[n] = made[n]
  BY <1>1 DEF Made
<1>3. Len(made) + 1 \in Beats /\ Len(made') <= MaxBeats
  BY <1>1, <1>2, QueueAssumption DEF Beats
<1>4. /\ Append(backlog, Len(made) + 1) \in Seq(Beats)
      /\ Range(Append(backlog, Len(made) + 1)) = Range(backlog) \cup {Len(made')}
  BY <1>1, <1>2, <1>3, RangeOfAppend
<1>5. KeepNewest(Append(backlog, Len(made) + 1))
  BY DEF Enqueue
<1> QED BY <1>2, <1>3, <1>4, <1>5, KeepEffect

\* A post is under way only in its own place.
LEMMA PostEnds ==
    ASSUME HeartbeatsTypeOK, NEW p \in Posters, posts' = [posts EXCEPT ![p] = <<>>]
    PROVE  /\ posts' \in [Posters -> Seq(Beats)]
           /\ Under(p)' = {} /\ \A q \in Posters : q # p => Under(q)' = Under(q)
BY DEF HeartbeatsTypeOK, Under, Range

\* A post that hangs may have been stored; it is given up and not put back.
LEMMA HangEffect ==
    ASSUME HeartbeatsTypeOK, PostHangs
    PROVE  /\ lost \subseteq lost' /\ \A n \in Under("timer") : stored'[n] = 0 => n \in lost'
           /\ \A n \in lost' : n \in lost \cup Under("timer")
           /\ UNCHANGED <<made, since, aged, backlog, unheard>>
           /\ posts' = [posts EXCEPT !["timer"] = <<>>] /\ timerSet' = FALSE
           /\ InsertHeartbeats(posts["timer"]) \/ UNCHANGED <<overdue, stored, dropped>>
BY DEF PostHangs, Under


LEMMA BeatsTypeStep ==
    HeartbeatsTypeOK /\ OnePlace /\ [HeartbeatsNext]_beatVars => HeartbeatsTypeOK'
<1> SUFFICES ASSUME HeartbeatsTypeOK, OnePlace, [HeartbeatsNext]_beatVars PROVE HeartbeatsTypeOK'
  OBVIOUS
<1>0. /\ Len(made) \in Nat /\ since \in 0..Len(made) /\ aged \in 0..Len(made) /\ overdue \in 0..aged
      /\ \A p \in Posters : Range(posts[p]) \subseteq Beats
  BY BeatsAreBeats DEF HeartbeatsTypeOK, Under
<1>1. ASSUME NEW f \in Files, NEW isWrite \in BOOLEAN, Enqueue(f, isWrite) PROVE HeartbeatsTypeOK'
  <2>1. UNCHANGED <<since, aged, overdue, posts, timerSet, stored, dropped, unheard>>
    BY <1>1 DEF Enqueue
  <2>2. since' \in 0..Len(made') /\ aged' \in 0..Len(made') /\ overdue' \in 0..aged'
    BY <1>0, <1>1, <2>1, EnqueueEffect
  <2> QED BY <1>1, <2>1, <2>2, EnqueueEffect DEF HeartbeatsTypeOK
<1>2. CASE BeatAges
  BY <1>0, <1>2 DEF BeatAges, HeartbeatsTypeOK
<1>3. CASE TimerFlushes \/ FlushThrows
  <2>1. UNCHANGED <<made, since, aged, overdue, stored, dropped, unheard>> /\ timerSet' \in BOOLEAN
    BY <1>3 DEF TimerFlushes, FlushThrows, TimerTakes, HeartbeatsTypeOK
  <2>2. backlog' \in Seq(Beats) /\ posts' \in [Posters -> Seq(Beats)] /\ lost' \subseteq Beats
    BY <1>3, TakeEffect
  <2> QED BY <2>1, <2>2 DEF HeartbeatsTypeOK
<1>4. CASE EditorRestarts
  <2>1. UNCHANGED <<made, aged, overdue, stored, dropped, unheard>> /\ since' = Len(made) /\ timerSet' = TRUE
    BY <1>4 DEF EditorRestarts
  <2>2. backlog' \in Seq(Beats) /\ posts' \in [Posters -> Seq(Beats)] /\ lost' \subseteq Beats
    BY <1>4, RestartEffect
  <2>3. since' \in 0..Len(made')
    BY <1>0, <2>1
  <2> QED BY <2>1, <2>2, <2>3 DEF HeartbeatsTypeOK
<1>5. ASSUME NEW p \in Posters, InsertHeartbeats(posts[p]), made' = made, aged' = aged
      PROVE  /\ stored' \in [Beats -> 0..2] /\ overdue' \in 0..aged' /\ dropped' \subseteq Beats
  <2>1. stored' \in [Beats -> 0..2] /\ overdue' \in overdue..aged /\ dropped' \subseteq dropped \cup Under(p)
    BY <1>5, InsertEffect
  <2>2. Under(p) \subseteq Beats /\ dropped \subseteq Beats
    BY BeatsAreBeats DEF HeartbeatsTypeOK
  <2> QED BY <1>0, <1>5, <2>1, <2>2
<1>6. ASSUME NEW p \in Posters, PostTaken(p) PROVE HeartbeatsTypeOK'
  BY <1>5, <1>6, PostEnds DEF PostTaken, HeartbeatsTypeOK
<1>7. ASSUME NEW p \in Posters, PutBack(p), UNCHANGED <<made, since, aged, timerSet>>,
             stored' \in [Beats -> 0..2], overdue' \in 0..aged', dropped' \subseteq Beats, unheard' \subseteq Beats
      PROVE  HeartbeatsTypeOK'
  BY <1>7, PutBackEffect DEF HeartbeatsTypeOK
<1>8. ASSUME NEW p \in Posters, PostRefused(p) \/ PostFails(p) PROVE HeartbeatsTypeOK'
  BY <1>0, <1>7, <1>8 DEF PostRefused, PostFails, HeartbeatsTypeOK
<1>9. CASE PostUnconfirmed
  <2>1. "timer" \in Posters
    BY DEF Posters
  <2>2. unheard' \subseteq Beats
    BY <1>0, <1>9, <2>1 DEF PostUnconfirmed, HeartbeatsTypeOK
  <2> QED BY <1>5, <1>7, <1>9, <2>1, <2>2 DEF PostUnconfirmed
<1>10. CASE PostHangs
  <2>1. "timer" \in Posters
    BY DEF Posters
  <2>2. stored' \in [Beats -> 0..2] /\ overdue' \in 0..aged' /\ dropped' \subseteq Beats
    BY <1>0, <1>5, <1>10, <2>1, HangEffect DEF HeartbeatsTypeOK
  <2>3. lost' \subseteq Beats
    BY <1>10, <2>1, HangEffect, BeatsAreBeats DEF HeartbeatsTypeOK
  <2> QED BY <1>10, <2>1, <2>2, <2>3, HangEffect, PostEnds DEF HeartbeatsTypeOK
<1>11. CASE UNCHANGED beatVars
  BY <1>11 DEF beatVars, HeartbeatsTypeOK
<1> QED
  BY <1>1, <1>2, <1>3, <1>4, <1>6, <1>8, <1>9, <1>10, <1>11 DEF HeartbeatsNext, PostSettles

LEMMA OnePlaceStep ==
    HeartbeatsTypeOK /\ OnePlace /\ [HeartbeatsNext]_beatVars => OnePlace'
<1> SUFFICES ASSUME HeartbeatsTypeOK, OnePlace, [HeartbeatsNext]_beatVars PROVE OnePlace'
  OBVIOUS
<1>0. /\ Range(backlog) \subseteq Beats /\ \A p \in Posters : Under(p) \subseteq Beats
      /\ Beats \subseteq Nat /\ Len(made) \in Nat /\ "timer" \in Posters
  BY BeatsAreBeats DEF Posters
<1>1. ASSUME NEW f \in Files, NEW isWrite \in BOOLEAN, Enqueue(f, isWrite) PROVE OnePlace'
  <2>1. UNCHANGED <<posts, stored, dropped>> /\ Len(made') = Len(made) + 1
        /\ Range(backlog)' \subseteq Range(backlog) \cup {Len(made')}
    BY <1>1, EnqueueEffect DEF Enqueue
  <2>2. \A p \in Posters : Under(p)' = Under(p)
    BY <2>1 DEF Under
  <2>3. \A n \in Nat : n <= Len(made) => n <= Len(made') /\ n # Len(made')
    BY <1>0, <2>1
  <2>4. Len(made') <= Len(made')
    BY <1>0, <2>1
  <2>5. \A n \in Range(backlog)' : n <= Len(made')
    BY <1>0, <2>1, <2>3, <2>4 DEF OnePlace
  <2>6. \A p \in Posters : \A n \in Under(p)' : n <= Len(made') /\ n \notin Range(backlog)'
    BY <1>0, <2>1, <2>2, <2>3 DEF OnePlace
  <2>7. \A p, q \in Posters : p # q => \A n \in Under(p)' : n \notin Under(q)'
    BY <2>2 DEF OnePlace
  <2>8. \A n \in Beats : n > Len(made') => stored'[n] = 0 /\ n \notin dropped'
    BY <1>0, <2>1 DEF OnePlace
  <2> QED BY <2>5, <2>6, <2>7, <2>8 DEF OnePlace
<1>2. CASE BeatAges \/ UNCHANGED beatVars
  BY <1>2 DEF BeatAges, beatVars, OnePlace, Under
<1>3. CASE TimerFlushes \/ FlushThrows
  <2>1. UNCHANGED <<made, stored, dropped>>
    BY <1>3 DEF TimerFlushes, FlushThrows, TimerTakes
  <2>2. /\ Range(backlog)' = {} /\ Under("timer")' \subseteq Range(backlog)
        /\ \A p \in Posters : p # "timer" => Under(p)' = Under(p)
    BY <1>3, TakeEffect
  <2> QED BY <1>0, <2>1, <2>2 DEF OnePlace
<1>4. CASE EditorRestarts
  <2>1. UNCHANGED <<made, stored, dropped>>
    BY <1>4 DEF EditorRestarts
  <2>2. /\ Range(backlog)' = {} /\ Under("timer")' = {} /\ Under("left")' = Under("timer")
        /\ Under("dispose")' \subseteq Range(backlog)
    BY <1>4, RestartEffect
  <2> QED BY <1>0, <2>1, <2>2 DEF OnePlace, Posters
<1>5. ASSUME NEW p \in Posters, made' = made, Under(p)' = {},
             \A q \in Posters : q # p => Under(q)' = Under(q),
             Range(backlog)' \subseteq Range(backlog) \cup Under(p),
             InsertHeartbeats(posts[p]) \/ UNCHANGED <<stored, dropped>>
      PROVE  OnePlace'
  <2>1. /\ dropped' \subseteq dropped \cup Under(p)
        /\ \A n \in Beats \ Under(p) : stored'[n] = stored[n]
    BY <1>5, InsertEffect
  <2>2. \A n \in Beats : n > Len(made) => n \notin Under(p)
    BY <1>0 DEF OnePlace
  <2>3. \A n \in Beats : n > Len(made') => stored'[n] = 0 /\ n \notin dropped'
    BY <1>5, <2>1, <2>2 DEF OnePlace
  <2>4. \A q \in Posters : Under(q)' \subseteq Under(q) /\ (q = p => Under(q)' = {})
    BY <1>5
  <2>5. \A n \in Range(backlog)' : n <= Len(made')
    BY <1>5 DEF OnePlace
  <2>6. \A q \in Posters : \A n \in Under(q)' : n <= Len(made') /\ n \notin Range(backlog)'
    BY <1>5, <2>4 DEF OnePlace
  <2>7. \A q, t \in Posters : q # t => \A n \in Under(q)' : n \notin Under(t)'
    BY <2>4 DEF OnePlace
  <2> QED BY <2>3, <2>5, <2>6, <2>7 DEF OnePlace
<1>6. ASSUME NEW p \in Posters, PostTaken(p) PROVE OnePlace'
  BY <1>5, <1>6, PostEnds DEF PostTaken
<1>7. ASSUME NEW p \in Posters, PostRefused(p) \/ PostFails(p) PROVE OnePlace'
  BY <1>5, <1>7, PutBackEffect DEF PostRefused, PostFails
<1>8. CASE PostUnconfirmed
  BY <1>0, <1>5, <1>8, PutBackEffect DEF PostUnconfirmed
<1>9. CASE PostHangs
  BY <1>0, <1>5, <1>9, HangEffect, PostEnds
<1> QED
  BY <1>1, <1>2, <1>3, <1>4, <1>6, <1>7, <1>8, <1>9 DEF HeartbeatsNext, PostSettles

\* What the property says of one beat.
CountedOnce(n) ==
    /\ n \in OnItsWay \/ stored[n] > 0 \/ n \in lost \cup dropped
    /\ n \in dropped => Droppable(n)
    /\ n \notin unheard => stored[n] <= 1 /\ (n \in OnItsWay => stored[n] = 0)
    /\ stored[n] > 1 => made[n].isWrite \/ n <= aged

LEMMA BeatByBeat == BeatsCountedOnce <=> \A n \in Made : CountedOnce(n)
BY DEF BeatsCountedOnce, CountedOnce, Droppable

\* A beat once counted stays so when it only moves on, and is stored again only
\* as the panel stores what it cannot recognise.
LEMMA CountedStays ==
    ASSUME HeartbeatsTypeOK, HeartbeatsTypeOK', NEW n \in Made, CountedOnce(n),
           Made \subseteq Made', \A m \in Made : made'[m] = made[m],
           aged' >= aged, overdue' >= overdue, \A m \in Made : stored'[m] >= stored[m],
           lost \subseteq lost', dropped \subseteq dropped', unheard \subseteq unheard',
           n \in OnItsWay => n \in OnItsWay' \/ stored'[n] > 0 \/ n \in lost' \cup dropped',
           n \in dropped' \ dropped => Droppable(n)',
           \/ stored'[n] = stored[n] /\ (n \in OnItsWay' => n \in OnItsWay)
           \/ n \in unheard'
           \/ stored'[n] <= 1 /\ n \notin OnItsWay',
           stored'[n] > 1 => stored[n] > 1 \/ made[n].isWrite \/ n <= aged
    PROVE  CountedOnce(n)'
<1>1. /\ n \in Beats /\ n \in Nat /\ Made \subseteq Beats /\ aged \in Nat /\ aged' \in Nat
      /\ overdue \in Nat /\ overdue' \in Nat
      /\ \A m \in Beats : stored[m] \in 0..2 /\ stored'[m] \in 0..2
  BY BeatsAreBeats DEF HeartbeatsTypeOK
<1>2. n \in OnItsWay' \/ stored'[n] > 0 \/ n \in lost' \cup dropped'
  BY <1>1 DEF CountedOnce
<1>3. Droppable(n) => Droppable(n)'
  <2>1. n <= overdue => n <= overdue'
    BY <1>1
  <2>2. \A m \in Made : stored[m] > 0 => m \in Made' /\ stored'[m] > 0
    BY <1>1
  <2> QED BY <2>1, <2>2 DEF Droppable
<1>4. n \in dropped' => Droppable(n)'
  BY <1>3 DEF CountedOnce
<1>5. n \notin unheard' => stored'[n] <= 1 /\ (n \in OnItsWay' => stored'[n] = 0)
  BY <1>1 DEF CountedOnce
<1>6. stored'[n] > 1 => made'[n].isWrite \/ n <= aged'
  BY <1>1 DEF CountedOnce
<1> QED BY <1>2, <1>4, <1>5, <1>6 DEF CountedOnce

LEMMA CountedOnceStep ==
    ASSUME BeatsInv, HeartbeatsTypeOK', [HeartbeatsNext]_beatVars, NEW n \in Made'
    PROVE  CountedOnce(n)'
<1>1. /\ HeartbeatsTypeOK /\ OnePlace /\ \A m \in Made : CountedOnce(m)
      /\ Beats \subseteq Nat /\ Made \subseteq Beats /\ Len(made) \in Nat /\ "timer" \in Posters
      /\ aged \in Nat /\ overdue \in Nat /\ \A m \in Beats : stored[m] \in 0..2
  <2>1. HeartbeatsTypeOK /\ OnePlace /\ \A m \in Made : CountedOnce(m)
    BY BeatByBeat DEF BeatsInv
  <2>2. aged \in Nat /\ overdue \in Nat /\ "timer" \in Posters
    BY <2>1 DEF HeartbeatsTypeOK, Posters
  <2> QED BY <2>1, <2>2, BeatsAreBeats
<1>2. ASSUME NEW f \in Files, NEW isWrite \in BOOLEAN, Enqueue(f, isWrite) PROVE CountedOnce(n)'
  <2>1. /\ UNCHANGED <<aged, overdue, stored, dropped, unheard>> /\ Len(made') = Len(made) + 1
        /\ \A p \in Posters : Under(p)' = Under(p)
    BY <1>1, <1>2, EnqueueEffect DEF Enqueue, Under
  <2>2. /\ \A m \in Made : made'[m] = made[m]
        /\ lost \subseteq lost' /\ Range(backlog)' \subseteq Range(backlog) \cup {Len(made')}
        /\ \A m \in Range(backlog) \cup {Len(made')} : m \in Range(backlog)' \/ stored[m] > 0 \/ m \in lost'
    BY <1>1, <1>2, EnqueueEffect
  <2>3. CASE n \in Made
    <3>1. n # Len(made') /\ Made \subseteq Made'
      BY <1>1, <2>1, <2>3 DEF Made
    <3>2. (n \in OnItsWay' => n \in OnItsWay) /\ (n \in OnItsWay => n \in OnItsWay' \/ stored[n] > 0 \/ n \in lost')
      BY <2>1, <2>2, <3>1, Places
    <3>3. aged' >= aged /\ overdue' >= overdue /\ \A m \in Made : stored'[m] >= stored[m]
      BY <1>1, <2>1
    <3> QED BY <1>1, <2>1, <2>2, <2>3, <3>1, <3>2, <3>3, CountedStays
  <2>4. CASE n \notin Made
    <3>1. n = Len(made') /\ n \in Beats /\ n > Len(made)
      BY <1>1, <2>1, <2>4, BeatsAreBeats DEF Made, HeartbeatsTypeOK, Beats
    <3>2. stored[n] = 0 /\ n \notin dropped
      BY <1>1, <3>1 DEF OnePlace
    <3>3. n \in Range(backlog)' \/ n \in lost'
      BY <2>2, <3>1, <3>2
    <3> QED BY <2>1, <3>2, <3>3, Places DEF CountedOnce
  <2> QED BY <2>3, <2>4
<1>3. ASSUME made' = made, aged' >= aged, UNCHANGED <<overdue, stored, dropped, unheard>>, lost \subseteq lost',
             n \in OnItsWay' => n \in OnItsWay,
             n \in OnItsWay => n \in OnItsWay' \/ stored[n] > 0 \/ n \in lost'
      PROVE  CountedOnce(n)'
  <2>1. /\ n \in Made /\ Made = Made' /\ \A m \in Made : made'[m] = made[m]
        /\ overdue' >= overdue /\ \A m \in Made : stored'[m] >= stored[m]
    BY <1>1, <1>3 DEF Made
  <2> QED BY <1>1, <1>3, <2>1, CountedStays
<1>4. CASE BeatAges \/ UNCHANGED beatVars
  <2>1. OnItsWay' = OnItsWay
    BY <1>4 DEF BeatAges, beatVars, OnItsWay
  <2>2. aged' >= aged
    BY <1>1, <1>4 DEF BeatAges, beatVars
  <2> QED BY <1>3, <1>4, <2>1, <2>2 DEF BeatAges, beatVars
<1>5. CASE TimerFlushes \/ FlushThrows
  <2>1. UNCHANGED <<made, aged, overdue, stored, dropped, unheard>>
    BY <1>5 DEF TimerFlushes, FlushThrows, TimerTakes
  <2>2. /\ n \in OnItsWay' => n \in OnItsWay
        /\ n \in OnItsWay => n \in OnItsWay' \/ stored[n] > 0 \/ n \in lost'
        /\ lost \subseteq lost'
    BY <1>1, <1>5, TakeEffect, Places
  <2> QED BY <1>1, <1>3, <2>1, <2>2
<1>6. CASE EditorRestarts
  <2>1. UNCHANGED <<made, aged, overdue, stored, dropped, unheard>>
    BY <1>6 DEF EditorRestarts
  <2>2. /\ n \in OnItsWay' => n \in OnItsWay
        /\ n \in OnItsWay => n \in OnItsWay' \/ stored[n] > 0 \/ n \in lost'
        /\ lost \subseteq lost'
    BY <1>1, <1>6, RestartEffect, Places DEF Posters
  <2> QED BY <1>1, <1>3, <2>1, <2>2
<1>7. ASSUME NEW p \in Posters, UNCHANGED <<made, aged>>, lost \subseteq lost',
             Under(p)' = {}, \A q \in Posters : q # p => Under(q)' = Under(q),
             Range(backlog)' \subseteq Range(backlog) \cup Under(p),
             \A m \in Range(backlog) : m \in Range(backlog)' \/ stored[m] > 0 \/ m \in lost',
             unheard \subseteq unheard',
             \/ /\ UNCHANGED <<overdue, stored, dropped>>
                /\ \A m \in Under(p) : m \in Range(backlog)' \/ stored[m] > 0 \/ m \in lost'
             \/ /\ InsertHeartbeats(posts[p])
                /\ \/ UNCHANGED backlog
                   \/ unheard' = unheard \cup {m \in Under(p) : stored'[m] > 0}
      PROVE  CountedOnce(n)'
  <2>0. n \in Made /\ Made = Made' /\ (\A m \in Made : made'[m] = made[m]) /\ n \in Beats
    BY <1>1, <1>7 DEF Made
  <2>1. /\ n \in OnItsWay' => n \in OnItsWay /\ (n \in Under(p) => n \in Range(backlog)')
        /\ n \in OnItsWay => n \in Under(p) \/ n \in OnItsWay' \/ stored[n] > 0 \/ n \in lost'
    BY <1>1, <1>7, Places DEF OnePlace
  <2>2. CASE UNCHANGED <<overdue, stored, dropped>>
             /\ \A m \in Under(p) : m \in Range(backlog)' \/ stored[m] > 0 \/ m \in lost'
    <3>1. /\ aged' >= aged /\ overdue' >= overdue /\ \A m \in Made : stored'[m] >= stored[m]
          /\ n \in OnItsWay => n \in OnItsWay' \/ stored'[n] > 0 \/ n \in lost'
      BY <1>1, <1>7, <2>1, <2>2, Places
    <3> QED BY <1>1, <1>7, <2>0, <2>1, <2>2, <3>1, CountedStays
  <2>3. CASE /\ InsertHeartbeats(posts[p])
             /\ UNCHANGED backlog \/ unheard' = unheard \cup {m \in Under(p) : stored'[m] > 0}
    <3>1. /\ dropped \subseteq dropped' /\ \A m \in Beats : stored'[m] >= stored[m]
          /\ \A m \in Beats \ Under(p) : stored'[m] = stored[m]
          /\ \A m \in Under(p) : /\ stored'[m] > 0 \/ m \in dropped'
                                 /\ stored[m] = 0 => stored'[m] <= 1
                                 /\ stored'[m] > 1 => stored[m] > 1 \/ made[m].isWrite \/ m <= aged
          /\ \A m \in dropped' \ dropped : Droppable(m)'
          /\ overdue' \in overdue..aged /\ stored' \in [Beats -> 0..2]
      BY <1>1, <1>7, <2>3, InsertEffect
    <3>2. aged' >= aged /\ overdue' >= overdue /\ \A m \in Made : stored'[m] >= stored[m]
      BY <1>1, <1>7, <3>1
    <3>3. n \in OnItsWay => n \in OnItsWay' \/ stored'[n] > 0 \/ n \in lost' \cup dropped'
      <4>1. stored[n] > 0 => stored'[n] > 0
        <5>1. stored[n] \in 0..2 /\ stored'[n] \in 0..2 /\ stored'[n] >= stored[n]
          BY <1>1, <2>0, <3>1
        <5> QED BY <5>1
      <4> QED BY <2>1, <3>1, <4>1
    <3>4. \/ stored'[n] = stored[n] /\ (n \in OnItsWay' => n \in OnItsWay)
          \/ n \in unheard'
          \/ stored'[n] <= 1 /\ n \notin OnItsWay'
      <4>1. CASE n \notin Under(p)
        BY <2>0, <2>1, <3>1, <4>1
      <4>2. CASE n \in Under(p) /\ UNCHANGED backlog
        <5>1. n \notin OnItsWay' /\ n \in OnItsWay
          BY <1>1, <1>7, <4>2, Places DEF OnePlace
        <5>2. n \in unheard \/ stored[n] = 0
          BY <1>1, <2>0, <5>1 DEF CountedOnce
        <5> QED BY <1>7, <3>1, <4>2, <5>1, <5>2
      <4>3. CASE n \in Under(p) /\ unheard' = unheard \cup {m \in Under(p) : stored'[m] > 0}
        <5>1. stored'[n] = 0 => stored[n] = 0
          <6>1. stored[n] \in 0..2 /\ stored'[n] >= stored[n]
            BY <1>1, <2>0, <3>1
          <6> QED BY <6>1
        <5>2. stored'[n] = 0 \/ stored'[n] > 0
          BY <2>0, <3>1
        <5> QED BY <2>1, <4>3, <5>1, <5>2
      <4> QED BY <2>3, <4>1, <4>2, <4>3
    <3>5. stored'[n] > 1 => stored[n] > 1 \/ made[n].isWrite \/ n <= aged
      BY <2>0, <3>1
    <3> QED BY <1>1, <1>7, <2>0, <3>1, <3>2, <3>3, <3>4, <3>5, CountedStays
  <2> QED BY <1>7, <2>2, <2>3
<1>8. ASSUME NEW p \in Posters, PostTaken(p) PROVE CountedOnce(n)'
  <2>1. /\ UNCHANGED <<made, aged, backlog, unheard, lost>> /\ InsertHeartbeats(posts[p])
        /\ posts' = [posts EXCEPT ![p] = <<>>]
    BY <1>8 DEF PostTaken
  <2> QED BY <1>1, <1>7, <2>1, PostEnds
<1>9. ASSUME NEW p \in Posters, PostRefused(p) \/ PostFails(p) PROVE CountedOnce(n)'
  <2>1. UNCHANGED <<made, aged, overdue, stored, dropped, unheard>> /\ PutBack(p)
    BY <1>9 DEF PostRefused, PostFails
  <2> QED BY <1>1, <1>7, <2>1, PutBackEffect
<1>10. CASE PostUnconfirmed
  <2>1. /\ UNCHANGED <<made, aged>> /\ PutBack("timer") /\ InsertHeartbeats(posts["timer"])
        /\ unheard' = unheard \cup {m \in Under("timer") : stored'[m] > 0}
    BY <1>10 DEF PostUnconfirmed, Under
  <2> QED BY <1>1, <1>7, <2>1, PutBackEffect
<1>11. CASE PostHangs
  <2>1. /\ lost \subseteq lost' /\ UNCHANGED <<made, aged, backlog, unheard>>
        /\ posts' = [posts EXCEPT !["timer"] = <<>>]
        /\ \/ InsertHeartbeats(posts["timer"])
           \/ /\ UNCHANGED <<overdue, stored, dropped>>
              /\ \A m \in Under("timer") : stored[m] > 0 \/ m \in lost'
    <3>1. \A m \in Under("timer") : stored[m] = 0 \/ stored[m] > 0
      BY <1>1, BeatsAreBeats
    <3> QED BY <1>1, <1>11, <3>1, HangEffect
  <2> QED BY <1>1, <1>7, <2>1, PostEnds
<1> QED
  BY <1>2, <1>4, <1>5, <1>6, <1>8, <1>9, <1>10, <1>11 DEF HeartbeatsNext, PostSettles

\* The invariant of the heartbeats: a beat is in one place of the queue or of one post.
THEOREM BeatsCorrect == HeartbeatsSpec => []BeatsInv
<1>1. BeatsInv /\ [HeartbeatsNext]_beatVars => BeatsInv'
  <2> SUFFICES ASSUME BeatsInv, [HeartbeatsNext]_beatVars PROVE BeatsInv'
    OBVIOUS
  <2>1. HeartbeatsTypeOK' /\ OnePlace'
    BY BeatsTypeStep, OnePlaceStep DEF BeatsInv
  <2>2. \A n \in Made' : CountedOnce(n)'
    BY <2>1, CountedOnceStep
  <2>3. BeatsCountedOnce'
    BY <2>2 DEF BeatsCountedOnce, CountedOnce, Droppable
  <2> QED BY <2>1, <2>3 DEF BeatsInv
<1> QED BY <1>1, BeatsStart, PTL DEF HeartbeatsSpec

\* The queue, the posts and the stored rows keep their types.
THEOREM HeartbeatsTypeCorrect == HeartbeatsSpec => []HeartbeatsTypeOK
<1>1. BeatsInv => HeartbeatsTypeOK
  BY DEF BeatsInv
<1> QED BY <1>1, BeatsCorrect, PTL

\* However posts are lost, answered late, refused, put back, forgotten or taken
\* for duplicates, a beat is counted once or is among those the property names.
THEOREM BeatsOnce == HeartbeatsSpec => []BeatsCountedOnce
<1>1. BeatsInv => BeatsCountedOnce
  BY DEF BeatsInv
<1> QED BY <1>1, BeatsCorrect, PTL
=============================================================================
