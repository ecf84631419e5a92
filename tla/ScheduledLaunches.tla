------------------------- MODULE ScheduledLaunches -------------------------
(***************************************************************************)
(* Launches scheduled for later (services/schedule.service.ts).  A cron    *)
(* tick selects the pending rows that are due and launches them one after  *)
(* the other; a launch awaits the provisioner, so a later tick may start   *)
(* while an earlier one still has rows to go through.                      *)
(*                                                                         *)
(* A turn of the event loop is one action: from a launch's answer to the   *)
(* next row's createSite there is no await.                                *)
(***************************************************************************)
EXTENDS FiniteSets, Integers

CONSTANTS
    Launches,       \* rows of scheduled_launches
    Ticks,          \* cron ticks under way at once
    NoLaunch

ASSUME NoLaunchAssumption == NoLaunch \notin Launches

VARIABLES
    launch,         \* [Launches -> status]; "absent" before the row is inserted
    due,            \* rows whose scheduled_at has passed
    enabled,        \* feature.scheduledLaunch
    tick,           \* [Ticks -> the row being launched and the rows behind it]
    begun,          \* createSite calls per row, none counted beyond two (history)
    failures,       \* rows one of whose launches failed (history)
    shared,         \* rows selected while another tick held them back (history)
    abandoned       \* rows the process was launching when it stopped (history)

launchVars == <<launch, due, enabled, tick, begun, failures, shared, abandoned>>

LaunchStatus == {"absent", "pending", "launching", "completed", "failed", "cancelled"}
Idle == [current |-> NoLaunch, behind |-> {}]

LaunchesTypeOK ==
    /\ launch \in [Launches -> LaunchStatus]
    /\ due \subseteq Launches
    /\ enabled \in BOOLEAN
    /\ tick \in [Ticks -> [current: Launches \cup {NoLaunch}, behind: SUBSET Launches]]
    /\ begun \in [Launches -> 0..2]
    /\ failures \subseteq Launches /\ shared \subseteq Launches /\ abandoned \subseteq Launches

LaunchesInit ==
    /\ launch = [l \in Launches |-> "absent"]
    /\ due = {}
    /\ enabled \in BOOLEAN
    /\ tick = [t \in Ticks |-> Idle]
    /\ begun = [l \in Launches |-> 0]
    /\ failures = {} /\ shared = {} /\ abandoned = {}

Behind(T) == UNION {tick[t].behind : t \in T}
Current(T) == {tick[t].current : t \in T} \ {NoLaunch}

BeginUnmarked(t, l, rest, statuses) ==   \* slip: the row stays pending until the launch ends
    /\ launch' = statuses
    /\ begun' = [begun EXCEPT ![l] = IF @ = 2 THEN 2 ELSE @ + 1]
    /\ tick' = [tick EXCEPT ![t] = [current |-> l, behind |-> rest]]

\* The row is marked without a look at its status, and createSite is called.
BeginLaunch(t, l, rest, statuses) ==
    /\ launch' = [statuses EXCEPT ![l] = "launching"]
    /\ begun' = [begun EXCEPT ![l] = IF @ = 2 THEN 2 ELSE @ + 1]
    /\ tick' = [tick EXCEPT ![t] = [current |-> l, behind |-> rest]]

----------------------------------------------------------------------------
ScheduleLaunch(l) ==
    /\ launch[l] = "absent"
    /\ launch' = [launch EXCEPT ![l] = "pending"]
    /\ UNCHANGED <<due, enabled, tick, begun, failures, shared, abandoned>>

LaunchFallsDue(l) ==
    /\ launch[l] # "absent" /\ l \notin due
    /\ due' = due \cup {l}
    /\ UNCHANGED <<launch, enabled, tick, begun, failures, shared, abandoned>>

CancelLaunch(l) ==
    /\ launch[l] = "pending"
    /\ launch' = [launch EXCEPT ![l] = "cancelled"]
    /\ UNCHANGED <<due, enabled, tick, begun, failures, shared, abandoned>>

SwitchFeature ==
    /\ enabled' = ~enabled
    /\ UNCHANGED <<launch, due, tick, begun, failures, shared, abandoned>>

DueRows == {l \in due : launch[l] = "pending"}

TickSelectsAlone(t, l) ==   \* slip: no tick selects while a row says 'launching'
    /\ enabled
    /\ tick[t] = Idle
    /\ \A x \in Launches : launch[x] # "launching"
    /\ l \in DueRows
    /\ BeginLaunch(t, l, DueRows \ {l}, launch)
    /\ shared' = shared \cup (DueRows \cap Behind(Ticks))
    /\ UNCHANGED <<due, enabled, failures, abandoned>>

\* A tick selects the rows that are due and begins one of them.
TickSelects(t, l) ==
    /\ enabled
    /\ tick[t] = Idle
    /\ l \in DueRows
    /\ BeginLaunch(t, l, DueRows \ {l}, launch)
    /\ shared' = shared \cup (DueRows \cap Behind(Ticks))
    /\ UNCHANGED <<due, enabled, failures, abandoned>>

\* createSite answers: the row gets its outcome and the tick goes on.
LaunchSettles(t, ok) ==
    LET l == tick[t].current
        settled == [launch EXCEPT ![l] = IF ok THEN "completed" ELSE "failed"]
    IN  /\ l # NoLaunch
        /\ \/ \E next \in tick[t].behind :
                BeginLaunch(t, next, tick[t].behind \ {next}, settled)
           \/ /\ tick[t].behind = {}
              /\ launch' = settled
              /\ tick' = [tick EXCEPT ![t] = Idle]
              /\ UNCHANGED begun
        /\ failures' = IF ok THEN failures ELSE failures \cup {l}
        /\ UNCHANGED <<due, enabled, shared, abandoned>>

\* The process restarts.  Nothing looks at the rows it was launching.
LaunchesRestart ==
    /\ tick' = [t \in Ticks |-> Idle]
    /\ abandoned' = abandoned \cup Current(Ticks)
    /\ UNCHANGED <<launch, due, enabled, begun, failures, shared>>

LaunchesNext ==
    \/ \E l \in Launches : ScheduleLaunch(l) \/ LaunchFallsDue(l) \/ CancelLaunch(l)
    \/ SwitchFeature
    \/ \E t \in Ticks : (\E l \in Launches : TickSelects(t, l))
                        \/ (\E ok \in BOOLEAN : LaunchSettles(t, ok))
    \/ LaunchesRestart

\* A tick comes every minute; a call to the provisioner ends or times out.
LaunchesFairness ==
    /\ WF_launchVars(\E t \in Ticks, l \in Launches : TickSelects(t, l))
    /\ \A t \in Ticks : WF_launchVars(\E ok \in BOOLEAN : LaunchSettles(t, ok))

LaunchesSpec == LaunchesInit /\ [][LaunchesNext]_launchVars /\ LaunchesFairness

----------------------------------------------------------------------------
(* Properties.                                                             *)

\* A row is launched twice, or recorded as failed without a failure, only
\* when a tick selected it while it waited behind a slow launch of another
\* tick: ticks that do not meet on waiting rows launch every row once, at
\* most (processScheduledLaunches).
LaunchedOnceUnlessShared ==
    \A l \in Launches \ shared :
        /\ begun[l] <= 1
        /\ launch[l] = "failed" <=> l \in failures
        /\ launch[l] \in {"pending", "absent"} => begun[l] = 0
        /\ launch[l] = "cancelled" => l \notin Current(Ticks)

\* A row says 'launching' only while a tick awaits its site, or when the
\* process stopped in the middle of its launch, which nothing repairs.
LaunchingIsAttended ==
    \A l \in Launches : launch[l] = "launching" => l \in Current(Ticks) \cup abandoned

\* A due row does not wait for ever while the feature is on: it is launched,
\* cancelled, or the feature is switched off.
DueLaunchesTaken ==
    \A l \in Launches : (l \in DueRows) ~> (launch[l] # "pending" \/ ~enabled)
=============================================================================
