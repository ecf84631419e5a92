------------------------------ MODULE BulkJobs ------------------------------
(***************************************************************************)
(* Bulk jobs (services/bulk.service.ts): a job creates its sites one after *)
(* the other, with a pause between two, in a loop of the process that took *)
(* the request.  The row is in the database; the loop and the signal that  *)
(* cancels it are in memory.                                               *)
(***************************************************************************)
EXTENDS Integers

CONSTANTS
    Jobs,           \* rows of bulk_jobs
    Total           \* sites a job asks for, 1 to 50

ASSUME TotalAssumption == Total \in Nat \ {0}

VARIABLES
    job,            \* [Jobs -> the row]; done is the column completed
    loop,           \* [Jobs -> where runBulkJob is]
    signal,         \* [Jobs -> BOOLEAN], activeJobs.get(id).cancelled
    asked,          \* createSite calls per job (history)
    cut             \* jobs whose loop ended with the process (history)

bulkVars == <<job, loop, signal, asked, cut>>

JobStatus == {"absent", "running", "cancelled", "completed", "failed"}

BulkTypeOK ==
    /\ job \in [Jobs -> [status: JobStatus, done: 0..Total, failed: 0..Total]]
    /\ loop \in [Jobs -> {"none", "creating", "pausing"}]
    /\ signal \in [Jobs -> BOOLEAN]
    /\ asked \in [Jobs -> 0..Total]
    /\ cut \subseteq Jobs

BulkInit ==
    /\ job = [j \in Jobs |-> [status |-> "absent", done |-> 0, failed |-> 0]]
    /\ loop = [j \in Jobs |-> "none"]
    /\ signal = [j \in Jobs |-> FALSE]
    /\ asked = [j \in Jobs |-> 0]
    /\ cut = {}

\* The row is inserted and the loop runs up to its first await.
StartBulkJob(j) ==
    /\ job[j].status = "absent"
    /\ job' = [job EXCEPT ![j].status = "running"]
    /\ loop' = [loop EXCEPT ![j] = "creating"]
    /\ asked' = [asked EXCEPT ![j] = 1]
    /\ UNCHANGED <<signal, cut>>

CountedOnlySuccess(row, ok) ==      \* slip: a failed site does not count as done
    IF ok THEN [row EXCEPT !.done = @ + 1] ELSE [row EXCEPT !.failed = @ + 1]

\* The row once the site in hand was created, or not.
Counted(row, ok) ==
    [row EXCEPT !.done = @ + 1, !.failed = IF ok THEN @ ELSE @ + 1]

\* createSite answers.  The signal is not looked at after the last site.
SiteSettles(j, ok) ==
    LET row == Counted(job[j], ok)
        last == asked[j] = Total
    IN  /\ loop[j] = "creating"
        /\ job' = [job EXCEPT ![j] = IF last THEN [row EXCEPT !.status = "completed"] ELSE row]
        /\ loop' = [loop EXCEPT ![j] = IF last THEN "none" ELSE "pausing"]
        /\ signal' = IF last THEN [signal EXCEPT ![j] = FALSE] ELSE signal
        /\ UNCHANGED <<asked, cut>>

PauseEndsUnchecked(j) ==            \* slip: the signal is not looked at
    /\ loop[j] = "pausing"
    /\ loop' = [loop EXCEPT ![j] = "creating"]
    /\ asked' = [asked EXCEPT ![j] = @ + 1]
    /\ UNCHANGED <<job, signal, cut>>

\* The pause is over: the job is cancelled, or the next site is begun.
PauseEnds(j) ==
    /\ loop[j] = "pausing"
    /\ \/ /\ signal[j]
          /\ job' = [job EXCEPT ![j].status = "cancelled"]
          /\ loop' = [loop EXCEPT ![j] = "none"]
          /\ signal' = [signal EXCEPT ![j] = FALSE]
          /\ UNCHANGED asked
       \/ /\ ~signal[j]
          /\ loop' = [loop EXCEPT ![j] = "creating"]
          /\ asked' = [asked EXCEPT ![j] = @ + 1]
          /\ UNCHANGED <<job, signal>>
    /\ UNCHANGED cut

\* A write of the loop throws (the database is busy, or the disk is full).
LoopThrows(j) ==
    /\ loop[j] = "creating" \/ signal[j]
    /\ job' = [job EXCEPT ![j].status = "failed"]
    /\ loop' = [loop EXCEPT ![j] = "none"]
    /\ signal' = [signal EXCEPT ![j] = FALSE]
    /\ UNCHANGED <<asked, cut>>

CancelOnlySignals(j) ==             \* slip: only a loop can be told to stop
    /\ loop[j] # "none"
    /\ signal' = [signal EXCEPT ![j] = TRUE]
    /\ UNCHANGED <<job, loop, asked, cut>>

\* With no loop to tell, a row that still says 'running' is cancelled directly.
CancelBulkJob(j) ==
    /\ job[j].status # "absent"
    /\ \/ /\ loop[j] # "none"
          /\ signal' = [signal EXCEPT ![j] = TRUE]
          /\ UNCHANGED job
       \/ /\ loop[j] = "none" /\ job[j].status = "running"
          /\ job' = [job EXCEPT ![j].status = "cancelled"]
          /\ UNCHANGED signal
    /\ UNCHANGED <<loop, asked, cut>>

BulkRestart ==
    /\ cut' = cut \cup {j \in Jobs : loop[j] # "none"}
    /\ loop' = [j \in Jobs |-> "none"]
    /\ signal' = [j \in Jobs |-> FALSE]
    /\ UNCHANGED <<job, asked>>

BulkNext ==
    \/ \E j \in Jobs :
          \/ StartBulkJob(j) \/ PauseEnds(j) \/ LoopThrows(j) \/ CancelBulkJob(j)
          \/ \E ok \in BOOLEAN : SiteSettles(j, ok)
    \/ BulkRestart

\* The provisioner answers or times out, and timers fire.
BulkFairness ==
    \A j \in Jobs : WF_bulkVars(PauseEnds(j) \/ \E ok \in BOOLEAN : SiteSettles(j, ok))

BulkSpec == BulkInit /\ [][BulkNext]_bulkVars /\ BulkFairness

----------------------------------------------------------------------------
(* Properties.                                                             *)

\* A job records the outcome of every site it asked for, save the one in hand
\* or the one that a restart, or a failed write, took from it; one that
\* completed asked for all of them (the progress the job page shows).
SitesAccountedFor ==
    \A j \in Jobs :
        /\ job[j].failed <= job[j].done
        /\ asked[j] = job[j].done + 1
           => loop[j] = "creating" \/ job[j].status = "failed" \/ j \in cut
        /\ asked[j] \in {job[j].done, job[j].done + 1}
        /\ job[j].status = "completed" => job[j].done = Total /\ asked[j] = Total

\* Once a cancellation is accepted the job begins no other site: the one in
\* hand, which is not interrupted, is its last (cancelBulkJob).
NoSiteAfterCancel ==
    [][\A j \in Jobs :
         signal[j] \/ job[j].status = "cancelled" => asked'[j] = asked[j]]_bulkVars

\* A job ends, unless the process stops under it; then it says 'running'
\* until somebody cancels it, and cancelling is possible.
BulkJobsEnd ==
    \A j \in Jobs :
        (job[j].status = "running") ~>
            \/ job[j].status \in {"completed", "cancelled", "failed"}
            \/ j \in cut /\ loop[j] = "none" /\ ENABLED CancelBulkJob(j)
=============================================================================
