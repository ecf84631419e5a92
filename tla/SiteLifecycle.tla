--------------------------- MODULE SiteLifecycle ---------------------------
(***************************************************************************)
(* The sites table of the API, the containers of the provisioner, and the  *)
(* tasks that move between them: a launch (createSite), its bind-mount     *)
(* upgrade, deleteSite with its background teardown, the expiry cron, the  *)
(* orphan watchdog with its inverse sweep, and the two admin clean-ups of  *)
(* routes/monitoring.ts.                                                   *)
(*                                                                         *)
(* The API is one Node process: the code between two awaits is one action. *)
(* A request to the provisioner is answered later, in any order, or not at *)
(* all, and goes on being served when the API restarts.                    *)
(***************************************************************************)
EXTENDS FiniteSets, Integers

CONSTANTS
    Sites,          \* row ids (uuids) the table may ever hold
    Names,          \* subdomains
    Containers,     \* container ids Docker may hand out
    NoSite, NoName, NoContainer,
    Caps,           \* <<members, max>>: the limits insertSiteTxn enforces
    Scopes,         \* the sets of rows a clear of finished sites may cover
    Permanent,      \* sites launched with the expiration "never"
    DirectAccess,   \* sites launched with direct file access
    MaxRemovals,    \* bound on the removals under way at once
    MaxRestarts     \* bound on restarts of the API

ASSUME SitesAssumption == IsFiniteSet(Sites)
ASSUME NullsAssumption ==
    NoSite \notin Sites /\ NoName \notin Names /\ NoContainer \notin Containers
ASSUME CapsAssumption == Caps \subseteq (SUBSET Sites) \X (Nat \ {0})
ASSUME ScopesAssumption == Scopes \subseteq SUBSET Sites
ASSUME KindsAssumption == Permanent \subseteq Sites /\ DirectAccess \subseteq Sites
ASSUME BoundsAssumption == MaxRemovals \in Nat /\ MaxRestarts \in Nat

VARIABLES
    \* the sites table
    status,     \* the row's status column; "none" before, "gone" after its life
    slug,       \* the subdomain the row was inserted with
    held,       \* rows whose subdomain column still is the slug
    cid,        \* the container_id column
    ended,      \* rows some clean-up has marked finished (history)
    \* Docker
    up,         \* containers that exist
    origin,     \* the launch a container carries the labels of
    \* the clocks
    age,        \* of expires_at: 0 ahead, 1 passed, 2 its UTC day is over too
    extended,   \* rows whose expires_at was moved by extendSite
    lapsed,     \* launches whose expires-at label has passed
    \* tasks between two awaits
    launch,     \* createSite and its bind-mount upgrade, per row
    reply,      \* the container id the provisioner answered it with; while
                \* "swap", the one the upgrade was asked for
    lost,       \* launches whose caller restarted
    removals,   \* DELETE /containers/:id requests and who waits for them
    watchdog,   \* cleanupOrphanedContainers
    restarts    \* of the API, so far

rows == <<status, slug, held, cid, ended>>
docker == <<up, origin>>
clocks == <<age, extended, lapsed>>
launches == <<launch, reply, lost>>
vars == <<rows, docker, clocks, launches, removals, watchdog, restarts>>

Status == {"none", "creating", "running", "expired", "error", "gone"}
Phase == {"idle", "posted", "accepted", "made", "polling", "swap", "torn", "swapped"}
\* The cron and the watchdog's label rule know the row to expire afterwards.
Removal ==
    [by: {"cron", "lapsed"}, site: Sites, c: Containers, phase: {"sent", "done"}] \cup
    [by: {"teardown", "orphan", "force", "stale", "nobody"}, site: {NoSite},
     c: Containers, phase: {"sent", "done"}]

Active == {s \in Sites : status[s] \in {"creating", "running"}}
Finished(s) == status[s] \in {"expired", "error", "gone"}
InTable(s) == status[s] \notin {"none", "gone"}
Label(c) == slug[origin[c]]
CanRemove == Cardinality(removals) < MaxRemovals
Request(by, s, c) == [by |-> by, site |-> s, c |-> c, phase |-> "sent"]

TypeOK ==
    /\ status \in [Sites -> Status]
    /\ slug \in [Sites -> Names \cup {NoName}]
    /\ held \subseteq Sites
    /\ cid \in [Sites -> Containers \cup {NoContainer}]
    /\ ended \subseteq Sites
    /\ up \subseteq Containers
    /\ origin \in [Containers -> Sites \cup {NoSite}]
    /\ age \in [Sites -> 0..2]
    /\ extended \subseteq Sites
    /\ lapsed \subseteq Sites
    /\ launch \in [Sites -> Phase]
    /\ reply \in [Sites -> Containers \cup {NoContainer}]
    /\ lost \subseteq Sites
    /\ removals \subseteq Removal
    /\ watchdog \in [phase: {"idle", "listed", "waiting"},
                     todo: SUBSET Containers, live: SUBSET Containers]
    /\ restarts \in 0..MaxRestarts

Idle == [phase |-> "idle", todo |-> {}, live |-> {}]

Init ==
    /\ status = [s \in Sites |-> "none"]
    /\ slug = [s \in Sites |-> NoName]
    /\ held = {} /\ ended = {} /\ extended = {} /\ lapsed = {} /\ lost = {}
    /\ cid = [s \in Sites |-> NoContainer]
    /\ up = {}
    /\ origin = [c \in Containers |-> NoSite]
    /\ age = [s \in Sites |-> 0]
    /\ launch = [s \in Sites |-> "idle"]
    /\ reply = [s \in Sites |-> NoContainer]
    /\ removals = {}
    /\ watchdog = Idle
    /\ restarts = 0

----------------------------------------------------------------------------
(* createSite, in the API.                                                 *)

RoomForOneTooMany(s) ==     \* slip: <= for < in the limit checks
    \A cap \in Caps : s \in cap[1] => Cardinality(Active \cap cap[1]) <= cap[2]

RoomFor(s) ==
    \A cap \in Caps : s \in cap[1] => Cardinality(Active \cap cap[1]) < cap[2]

NameFreeOfLive(n) == \A t \in held \cap Active : slug[t] # n   \* slip: no unique column

NameFree(n) == \A t \in held : slug[t] # n

\* insertSiteTxn and the request that follows it without an await.
Reserve(s, n) ==
    /\ status[s] = "none"
    /\ RoomFor(s)
    /\ NameFree(n)
    /\ status' = [status EXCEPT ![s] = "creating"]
    /\ slug' = [slug EXCEPT ![s] = n]
    /\ held' = held \cup {s}
    /\ launch' = [launch EXCEPT ![s] = "posted"]
    /\ UNCHANGED <<cid, ended, docker, clocks, reply, lost, removals, watchdog, restarts>>

\* The answer of POST /containers.  The UPDATE has no condition on the status.
LaunchDone(s) ==
    /\ launch[s] = "made"
    /\ IF status[s] = "gone"
       THEN UNCHANGED <<status, cid>>
       ELSE /\ status' = [status EXCEPT ![s] = "running"]
            /\ cid' = [cid EXCEPT ![s] = reply[s]]
    /\ launch' = [launch EXCEPT ![s] =
           IF s \in DirectAccess /\ status[s] # "gone" THEN "polling" ELSE "idle"]
    /\ reply' = [reply EXCEPT ![s] = NoContainer]
    /\ UNCHANGED <<slug, held, ended, docker, clocks, lost, removals, watchdog, restarts>>

\* Nothing of the launch is left to do.
Settle(s) ==
    /\ launch' = [launch EXCEPT ![s] = "idle"]
    /\ reply' = [reply EXCEPT ![s] = NoContainer]
    /\ lost' = lost \ {s}

LaunchFailsUnrecorded(s) == \* slip: the catch does not mark the row
    /\ launch[s] \in {"posted", "accepted", "made"}
    /\ Settle(s)
    /\ UNCHANGED <<rows, docker, clocks, removals, watchdog, restarts>>

\* The request failed: the provisioner refused it, broke down part way, or its
\* answer was lost after the container was made.
LaunchFails(s) ==
    /\ launch[s] \in {"posted", "accepted", "made"}
    /\ Settle(s)
    /\ IF s \in lost \/ status[s] = "gone"
       THEN UNCHANGED <<status, held>>
       ELSE /\ status' = [status EXCEPT ![s] = "error"]
            /\ held' = held \ {s}
    /\ UNCHANGED <<slug, cid, ended, docker, clocks, removals, watchdog, restarts>>

\* The background upgrade re-reads the row once the first sync is over, and
\* asks for the container it finds there.
UpgradeStarts(s) ==
    /\ launch[s] = "polling"
    /\ \/ /\ status[s] = "running"
          /\ launch' = [launch EXCEPT ![s] = "swap"]
          /\ reply' = [reply EXCEPT ![s] = cid[s]]
       \/ /\ status[s] # "running"
          /\ launch' = [launch EXCEPT ![s] = "idle"]
          /\ UNCHANGED reply
    /\ UNCHANGED <<rows, docker, clocks, lost, removals, watchdog, restarts>>

UpgradeDone(s) ==
    /\ launch[s] = "swapped"
    /\ cid' = IF status[s] = "gone" THEN cid ELSE [cid EXCEPT ![s] = reply[s]]
    /\ Settle(s)
    /\ UNCHANGED <<status, slug, held, ended, docker, clocks, removals, watchdog, restarts>>

UpgradeFails(s) ==
    /\ launch[s] \in {"swap", "torn", "swapped"}
    /\ Settle(s)
    /\ UNCHANGED <<rows, docker, clocks, removals, watchdog, restarts>>

----------------------------------------------------------------------------
(* The provisioner.                                                        *)

AcceptRunsEarly(s) ==       \* slip: the row runs before its container exists
    /\ launch[s] = "posted"
    /\ launch' = [launch EXCEPT ![s] = "accepted"]
    /\ status' = [status EXCEPT ![s] = "running"]
    /\ UNCHANGED <<slug, held, cid, ended, docker, clocks, reply, lost, removals, watchdog, restarts>>

Accept(s) ==
    /\ launch[s] = "posted"
    /\ launch' = [launch EXCEPT ![s] = "accepted"]
    /\ UNCHANGED <<rows, docker, clocks, reply, lost, removals, watchdog, restarts>>

\* Docker refuses a second container of the same name, wp-site-<subdomain>.
\* With the caller gone the answer goes nowhere.
Make(s, c, phase) ==
    /\ origin[c] = NoSite
    /\ \A d \in up : Label(d) # slug[s]
    /\ up' = up \cup {c}
    /\ origin' = [origin EXCEPT ![c] = s]
    /\ IF s \in lost
       THEN Settle(s)
       ELSE /\ launch' = [launch EXCEPT ![s] = phase]
            /\ reply' = [reply EXCEPT ![s] = c]
            /\ UNCHANGED lost
    /\ UNCHANGED <<rows, clocks, removals, watchdog, restarts>>

CreateContainer(s, c) == launch[s] = "accepted" /\ Make(s, c, "made")

\* enable-bind-mounts removes the container, then makes its replacement.
TearForUpgrade(s) ==
    /\ launch[s] = "swap"
    /\ reply[s] \in up
    /\ up' = up \ {reply[s]}
    /\ launch' = [launch EXCEPT ![s] = "torn"]
    /\ reply' = [reply EXCEPT ![s] = NoContainer]
    /\ UNCHANGED <<rows, origin, clocks, lost, removals, watchdog, restarts>>

Recreate(s, c) == launch[s] = "torn" /\ Make(s, c, "swapped")

\* DELETE /containers/:id; a container that is not there counts as removed.
RemoveContainer(r) ==
    /\ r.phase = "sent"
    /\ up' = up \ {r.c}
    /\ removals' = (removals \ {r}) \cup
           IF r.by \in {"teardown", "nobody"} THEN {} ELSE {[r EXCEPT !.phase = "done"]}
    /\ UNCHANGED <<rows, origin, clocks, launches, watchdog, restarts>>

----------------------------------------------------------------------------
(* Ending a site.                                                          *)

\* UPDATE ... SET status = 'expired', subdomain = <slug>--deleted-<ts>.
Expire(S) ==
    /\ status' = [s \in Sites |-> IF s \in S /\ InTable(s) THEN "expired" ELSE status[s]]
    /\ held' = held \ S
    /\ ended' = ended \cup {s \in S : InTable(s)}

DeleteSiteUnchecked(s) ==   \* slip: no test of container_id before the request
    /\ InTable(s)
    /\ CanRemove
    /\ Expire({s})
    /\ removals' = removals \cup {Request("teardown", NoSite, cid[s])}
    /\ UNCHANGED <<slug, cid, docker, clocks, launches, watchdog, restarts>>

DeleteSite(s) ==
    /\ InTable(s)
    /\ CanRemove
    /\ Expire({s})
    /\ removals' = removals \cup
           IF cid[s] = NoContainer THEN {} ELSE {Request("teardown", NoSite, cid[s])}
    /\ UNCHANGED <<slug, cid, docker, clocks, launches, watchdog, restarts>>

ClearFinished(S) ==
    LET cleared == {s \in S : status[s] \in {"expired", "error"}} IN
    /\ cleared # {}
    /\ status' = [s \in Sites |-> IF s \in cleared THEN "gone" ELSE status[s]]
    /\ held' = held \ cleared
    /\ cid' = [s \in Sites |-> IF s \in cleared THEN NoContainer ELSE cid[s]]
    /\ UNCHANGED <<slug, ended, docker, clocks, launches, removals, watchdog, restarts>>

\* min(max(expires_at, now) + duration, now + 7 days) is always ahead of now.
ExtendSite(s) ==
    /\ status[s] = "running"
    /\ age' = [age EXCEPT ![s] = 0]
    /\ extended' = extended \cup {s}
    /\ UNCHANGED <<rows, docker, lapsed, launches, removals, watchdog, restarts>>

\* The cron's SELECT: expires_at is compared, as a string, with datetime('now').
CronSelect ==
    LET due == {s \in Sites : status[s] = "running" /\ age[s] = 2} IN
    /\ due # {}
    /\ CanRemove
    /\ removals' = removals \cup {Request("cron", s, cid[s]) : s \in due}
    /\ UNCHANGED <<rows, docker, clocks, launches, watchdog, restarts>>

CronExpires(r) ==
    /\ r.by = "cron" /\ r.phase = "done"
    /\ Expire({r.site})
    /\ removals' = removals \ {r}
    /\ UNCHANGED <<slug, cid, docker, clocks, launches, watchdog, restarts>>

\* POST /monitoring/containers/:id/force-remove leaves the subdomain as it is.
ForceRemove(c) ==
    /\ CanRemove
    /\ removals' = removals \cup {Request("force", NoSite, c)}
    /\ UNCHANGED <<rows, docker, clocks, launches, watchdog, restarts>>

ForceRemoved(r) ==
    LET hit == {s \in Sites : InTable(s) /\ cid[s] = r.c} IN
    /\ r.by = "force" /\ r.phase = "done"
    /\ status' = [s \in Sites |-> IF s \in hit THEN "expired" ELSE status[s]]
    /\ ended' = ended \cup hit
    /\ removals' = removals \ {r}
    /\ UNCHANGED <<slug, held, cid, docker, clocks, launches, watchdog, restarts>>

\* POST /monitoring/cleanup/stale pairs containers and rows by subdomain, and
\* updates by subdomain once the container is gone.
StaleSelect(c) ==
    /\ CanRemove
    /\ \E s \in held : status[s] = "running" /\ slug[s] = Label(c) /\ age[s] > 0
    /\ removals' = removals \cup {Request("stale", NoSite, c)}
    /\ UNCHANGED <<rows, docker, clocks, launches, watchdog, restarts>>

StaleExpires(r) ==
    LET hit == {s \in held : slug[s] = Label(r.c)} IN
    /\ r.by = "stale" /\ r.phase = "done"
    /\ status' = [s \in Sites |-> IF s \in hit THEN "expired" ELSE status[s]]
    /\ ended' = ended \cup hit
    /\ removals' = removals \ {r}
    /\ UNCHANGED <<slug, held, cid, docker, clocks, launches, watchdog, restarts>>

\* A removal the provisioner could not carry out: whoever waits gives up.
RemovalFails(r) ==
    /\ r.phase = "sent" /\ r.by \notin {"orphan", "lapsed"}
    /\ removals' = removals \ {r}
    /\ UNCHANGED <<rows, docker, clocks, launches, watchdog, restarts>>

----------------------------------------------------------------------------
(* The orphan watchdog.                                                    *)

WatchdogLists ==
    /\ watchdog.phase = "idle"
    /\ watchdog' = [phase |-> "listed", todo |-> up, live |-> up]
    /\ UNCHANGED <<rows, docker, clocks, launches, removals, restarts>>

OrphanedUnlessRunning(c, st, hd) ==     \* slip: rows still creating are not looked up
    \A s \in hd : slug[s] = Label(c) => st[s] # "running"

\* No row has the subdomain on the container's label, or an expired one has it.
Orphaned(c, st, hd) == \A s \in hd : slug[s] = Label(c) => st[s] = "expired"

DoomedByLabelOnly(todo, st, hd) == {c \in todo : origin[c] \in lapsed}    \* slip: no orphan rule
Doomed(todo, st, hd) == {c \in todo : Orphaned(c, st, hd) \/ origin[c] \in lapsed}

\* The removal it asks for, and the row to expire when that succeeds.
Verdict(c, st, hd) ==
    IF Orphaned(c, st, hd) THEN {Request("orphan", NoSite, c)}
    ELSE {Request("lapsed", s, c) : s \in {s \in hd : slug[s] = Label(c)}}

MissingCreating(st, live) ==    \* slip: the wrong status in the inverse sweep
    {s \in Sites : st[s] = "creating" /\ cid[s] \notin live}

\* Running rows whose container was not in the list taken at the start.
Missing(st, live) == {s \in Sites : st[s] = "running" /\ cid[s] \notin live}

\* The loop up to its next await, from the rows as st, hd and en give them: it
\* skips containers that are fine and asks for a removal, or it reaches the end
\* of the list and runs the inverse sweep.
Scan(st, hd, en, rest) ==
    LET doomed == Doomed(watchdog.todo, st, hd)
        missing == Missing(st, watchdog.live)
    IN  \/ \E c \in doomed, fine \in SUBSET (watchdog.todo \ doomed) :
            /\ watchdog' = [watchdog EXCEPT !.phase = "waiting",
                                            !.todo = @ \ ({c} \cup fine)]
            /\ removals' = rest \cup Verdict(c, st, hd)
            /\ status' = st /\ held' = hd /\ ended' = en
        \/ /\ doomed = {}
           /\ watchdog' = Idle
           /\ removals' = rest
           /\ status' = [s \in Sites |-> IF s \in missing THEN "expired" ELSE st[s]]
           /\ held' = hd \ missing
           /\ ended' = en \cup missing

WatchdogStarts ==
    /\ watchdog.phase = "listed"
    /\ Scan(status, held, ended, removals)
    /\ UNCHANGED <<slug, cid, docker, clocks, launches, restarts>>

WatchdogResumes(r) ==
    LET hit == {s \in Sites : s = r.site /\ r.phase = "done" /\ InTable(s)} IN
    /\ r.by \in {"orphan", "lapsed"}
    /\ Scan([s \in Sites |-> IF s \in hit THEN "expired" ELSE status[s]],
            held \ hit, ended \cup hit, removals \ {r})
    /\ UNCHANGED <<slug, cid, docker, clocks, launches, restarts>>

----------------------------------------------------------------------------
(* Time and restarts.                                                      *)

\* The label and, unless it was moved, expires_at pass at the same instant.
LabelLapses(s) ==
    /\ \/ status[s] = "running" \/ launch[s] # "idle"
       \/ \E c \in up \cup watchdog.todo : origin[c] = s
    /\ s \notin Permanent \cup lapsed
    /\ lapsed' = lapsed \cup {s}
    /\ age' = IF s \in extended \/ Finished(s) THEN age ELSE [age EXCEPT ![s] = 1]
    /\ UNCHANGED <<rows, docker, extended, launches, removals, watchdog, restarts>>

\* Only a running row's expires_at is ever read.
ExpiryPasses(s) ==
    /\ status[s] = "running"
    /\ s \in extended /\ age[s] = 0
    /\ age' = [age EXCEPT ![s] = 1]
    /\ UNCHANGED <<rows, docker, extended, lapsed, launches, removals, watchdog, restarts>>

DayPasses(s) ==
    /\ status[s] = "running"
    /\ age[s] = 1
    /\ age' = [age EXCEPT ![s] = 2]
    /\ UNCHANGED <<rows, docker, extended, lapsed, launches, removals, watchdog, restarts>>

\* Every task of the API is forgotten; the provisioner carries on.
Restart ==
    /\ restarts < MaxRestarts
    /\ restarts' = restarts + 1
    /\ watchdog' = Idle
    /\ removals' = {Request("nobody", NoSite, r.c) : r \in {q \in removals : q.phase = "sent"}}
    /\ lost' = {s \in Sites : launch[s] \in {"posted", "accepted", "swap", "torn"}}
    /\ launch' = [s \in Sites |->
           IF launch[s] \in {"made", "polling", "swapped"} THEN "idle" ELSE launch[s]]
    /\ reply' = [s \in Sites |-> IF launch[s] = "swap" THEN reply[s] ELSE NoContainer]
    /\ UNCHANGED <<rows, docker, clocks>>

----------------------------------------------------------------------------

UserStep ==
    \/ \E s \in Sites, n \in Names : Reserve(s, n)
    \/ \E s \in Sites : DeleteSite(s) \/ ExtendSite(s)
    \/ \E S \in Scopes : ClearFinished(S)
    \/ \E c \in up : ForceRemove(c) \/ StaleSelect(c)

LaunchStep(s) ==
    \/ LaunchDone(s) \/ LaunchFails(s)
    \/ UpgradeStarts(s) \/ UpgradeDone(s) \/ UpgradeFails(s)
    \/ Accept(s) \/ TearForUpgrade(s)
    \/ \E c \in Containers : CreateContainer(s, c) \/ Recreate(s, c)

RemovalStep(r) ==
    \/ RemoveContainer(r) \/ RemovalFails(r)
    \/ CronExpires(r) \/ ForceRemoved(r) \/ StaleExpires(r)
    \/ WatchdogResumes(r)

Next ==
    \/ UserStep
    \/ \E s \in Sites : LaunchStep(s)
    \/ \E r \in removals : RemovalStep(r)
    \/ CronSelect \/ WatchdogLists \/ WatchdogStarts
    \/ \E s \in Sites : LabelLapses(s) \/ ExpiryPasses(s) \/ DayPasses(s)
    \/ Restart

Spec == Init /\ [][Next]_vars

\* What the code schedules: an awaited request is answered one way or the other,
\* the watchdog's interval keeps firing and its loop goes on, and a container
\* whose removal it keeps asking for is removed in the end.
Fairness ==
    /\ \A s \in Sites : WF_vars(LaunchStep(s))
    /\ WF_vars(WatchdogLists) /\ WF_vars(WatchdogStarts)
    /\ WF_vars(\E r \in removals : WatchdogResumes(r))
    /\ \A c \in Containers : SF_vars(\E r \in removals :
           r.c = c /\ r.by \in {"orphan", "lapsed"} /\ RemoveContainer(r))

FairSpec == Spec /\ Fairness

----------------------------------------------------------------------------
(* Properties.                                                             *)

\* The table keeps what SiteReservation promises: the user, server and blueprint
\* limits hold of the rows that never ended, names are exclusive, and a slot
\* ends once, whatever tears down, restarts or answers late (insertSiteTxn).
Reservation == INSTANCE SiteReservation WITH
    reserved <- Active \ ended,
    claim <- [s \in Sites |-> IF s \in held THEN slug[s] ELSE NoName],
    spent <- ended \cup {s \in Sites : Finished(s)}

ImplementsReservation == Reservation!Spec

\* The user, server and blueprint limits insertSiteTxn enforces hold of the rows
\* that never ended; an answer that comes late may bring an ended row back on
\* top of them.
LimitsHeld ==
    \A cap \in Caps : Cardinality((Active \ ended) \cap cap[1]) <= cap[2]

\* No two rows have the same subdomain, and a live row that never ended has one:
\* no clean-up frees a name too early, and none that leaves it with an expired
\* row lets a launch take it again (the two admin clean-ups leave it).
NamesHeld ==
    /\ \A s, t \in held : slug[s] = slug[t] => s = t
    /\ Active \ ended \subseteq held

\* A background teardown or an orphan removal is only ever under way for a
\* container whose launch is over: deleteSite marks the row first, and the
\* watchdog's lookup by subdomain protects every live row, one still creating
\* included, at whatever moment of its launch the list was taken.
NoLiveSiteTornDown ==
    \A r \in removals : r.by \in {"teardown", "orphan"} =>
        Finished(origin[r.c]) \/ origin[r.c] \in ended

\* A row points at a container of its own launch and at no other row's, and a
\* running row points at one: an upgrade, a late answer or a reused subdomain
\* never makes two rows share a container (createSite and its upgrade).
RowsOwnTheirContainers ==
    \A s \in Sites :
        /\ cid[s] # NoContainer => origin[cid[s]] = s
        /\ status[s] = "running" => cid[s] # NoContainer

\* Deleted, timed-out and failed rows are terminal (clearFinishedSites calls
\* them "terminal site rows"): no later answer brings one back.
TerminalRows ==
    [][\A s \in Sites : Finished(s) => status'[s] \in {"expired", "error", "gone"}]_vars

\* The inverse sweep expires a running row only when its container is gone.
SweptRowsLostTheirContainer ==
    [][\A s \in Sites :
           /\ watchdog.phase # "idle" /\ watchdog'.phase = "idle"
           /\ status[s] = "running" /\ status'[s] = "expired"
           => cid[s] \notin up]_vars

\* The watchdog asks for the removal of a live site's container only once the
\* site's own expires_at has passed, so an extension by extendSite is honoured.
ExtensionHonoured ==
    \A r \in removals :
        r.by = "lapsed" /\ status[r.site] = "running" => age[r.site] > 0

\* A container whose row is finished does not stay: teardown, cron or watchdog
\* removes it, unless the row came back, or a restart left a row of the same
\* subdomain creating for ever (cleanupOrphanedContainers).
OrphansAreRemoved ==
    \A c \in Containers :
        (c \in up /\ Finished(origin[c]))
        ~> \/ c \notin up
           \/ status[origin[c]] = "running"
           \/ \E s \in held : /\ slug[s] = Label(c) /\ status[s] = "creating"
                              /\ launch[s] = "idle"

\* A running row whose container is gone does not stay running: without the
\* inverse sweep the dashboard would poll it for ever.
DeadRowsExpire ==
    \A s \in Sites :
        (status[s] = "running" /\ launch[s] = "idle" /\ cid[s] \notin up)
        ~> status[s] # "running"

\* A launch ends as running or error, or is deleted, unless the API restarts.
LaunchSettles ==
    \A s \in Sites : status[s] = "creating" ~> status[s] # "creating" \/ restarts > 0
=============================================================================
