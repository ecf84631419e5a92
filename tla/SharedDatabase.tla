--------------------------- MODULE SharedDatabase ---------------------------
(***************************************************************************)
(* One shared database engine of the provisioner (db-engine.ts): launches  *)
(* start it and make a database each, teardowns drop the database and stop *)
(* an engine nobody uses, and the API's watchdog sweeps what is left.      *)
(*                                                                         *)
(* The sites table is here as far as the sweep reads it; SiteLifecycle has *)
(* the rest.  Launches, teardowns and sweeps are HTTP requests the         *)
(* provisioner serves side by side, awaiting Docker between two actions.   *)
(* The two engines share only the keep list, so one stands for either.     *)
(***************************************************************************)
EXTENDS FiniteSets

CONSTANTS
    Sites,          \* row ids, of sites launched on this engine
    Names,          \* subdomains
    Databases,      \* names of databases and of their users, which are the same
    Identifier,     \* siteDbIdentifier: 20 characters and a hash of 4, so not one-to-one
    NoSite, NoName, NoDatabase,
    Teardowns,      \* DELETE /containers/:id requests that may be under way at once
    Sweeps          \* sweepOrphanedDatabases runs that may be under way at once

Database == [user: Sites, data: Sites \cup {NoSite}]

ASSUME IdentifierAssumption == Identifier \in [Names -> Databases]
ASSUME NullsAssumption ==
    NoSite \notin Sites /\ NoName \notin Names /\ NoDatabase \notin Database

VARIABLES
    status, slug, held,     \* the sites table: held rows still have their subdomain
    launch,                 \* POST /containers, per site
    up,                     \* sites whose container exists
    engine,                 \* the engine's container is running
    dbs,                    \* the databases on its volume
    teardowns,
    sweeps,
    exposed,                \* launches that began next to a sweep or a namesake (history)
    asked                   \* sites whose container was to be removed (history)

rows == <<status, slug, held>>
vars == <<rows, launch, up, engine, dbs, teardowns, sweeps, exposed, asked>>

Idle == [phase |-> "idle"]
Teardown == {Idle} \cup [phase: {"inspected", "dropped", "removed", "unused"}, site: Sites]
Sweep == {Idle} \cup
         [phase: {"sent", "dropping"}, keep: SUBSET Databases, doomed: SUBSET Databases]

TypeOK ==
    \* "ended": error or expired, which only SiteLifecycle tells apart
    /\ status \in [Sites -> {"none", "creating", "running", "ended"}]
    /\ slug \in [Sites -> Names \cup {NoName}]
    /\ held \subseteq Sites /\ up \subseteq Sites
    /\ launch \in [Sites -> {"idle", "posted", "ready", "provisioned", "made"}]
    /\ engine \in BOOLEAN
    \* user: whose password it has; data: the site WordPress was installed for
    /\ dbs \in [Databases -> Database \cup {NoDatabase}]
    /\ teardowns \in [Teardowns -> Teardown]
    /\ sweeps \in [Sweeps -> Sweep]
    /\ exposed \subseteq Sites /\ asked \subseteq Sites

Init ==
    /\ status = [s \in Sites |-> "none"]
    /\ slug = [s \in Sites |-> NoName]
    /\ held = {} /\ up = {} /\ exposed = {} /\ asked = {}
    /\ launch = [s \in Sites |-> "idle"]
    /\ engine = FALSE
    /\ dbs = [d \in Databases |-> NoDatabase]
    /\ teardowns = [k \in Teardowns |-> Idle]
    /\ sweeps = [w \in Sweeps |-> Idle]

Db(s) == Identifier[slug[s]]
Exists(d) == dbs[d] # NoDatabase
\* expectedDbIdentifiers counts rows that are creating or running.
Kept == {Db(s) : s \in {s \in held : status[s] \in {"creating", "running"}}}
Dropped(d) == [dbs EXCEPT ![d] = NoDatabase]

----------------------------------------------------------------------------
(* The sites table.                                                        *)

\* Sites that may still touch the database: launching, up, or being torn down.
Around(d) ==
    {s \in Sites : /\ status[s] # "none" /\ Db(s) = d
                   /\ \/ launch[s] # "idle" \/ s \in up
                      \/ \E k \in Teardowns : teardowns[k] # Idle /\ teardowns[k].site = s}

Reserve(s, n) ==
    LET others == Around(Identifier[n]) IN
    /\ status[s] = "none"
    /\ \A t \in held : slug[t] # n
    /\ status' = [status EXCEPT ![s] = "creating"]
    /\ slug' = [slug EXCEPT ![s] = n]
    /\ held' = held \cup {s}
    /\ launch' = [launch EXCEPT ![s] = "posted"]
    /\ exposed' = exposed \cup others \cup
           IF others # {} \/ \E w \in Sweeps : sweeps[w] # Idle THEN {s} ELSE {}
    /\ UNCHANGED <<up, engine, dbs, teardowns, sweeps, asked>>

\* deleteSite, a clean-up that found the site expired or its container gone, or
\* the API's end of a launch whose answer was lost: the launch itself goes on.
EndRow(s) ==
    /\ status[s] \in {"creating", "running"}
    /\ status' = [status EXCEPT ![s] = "ended"]
    /\ held' = held \ {s}
    /\ UNCHANGED <<slug, launch, up, engine, dbs, teardowns, sweeps, exposed, asked>>

LaunchDone(s) ==
    /\ launch[s] = "made"
    /\ launch' = [launch EXCEPT ![s] = "idle"]
    /\ status' = [status EXCEPT ![s] = "running"]
    /\ UNCHANGED <<slug, held, up, engine, dbs, teardowns, sweeps, exposed, asked>>

\* Also when the engine does not get ready in time, or the name is taken in Docker.
\* If the answer is lost the row ends alone (EndRow), its name is free, and the
\* handler goes on, as far as CreateContainer, until this ends it.
LaunchFails(s) ==
    /\ launch[s] # "idle"
    /\ launch' = [launch EXCEPT ![s] = "idle"]
    /\ status' = [status EXCEPT ![s] = "ended"]
    /\ held' = held \ {s}
    /\ UNCHANGED <<slug, up, engine, dbs, teardowns, sweeps, exposed, asked>>

----------------------------------------------------------------------------
(* POST /containers.                                                       *)

EnsureEngineRunning(s) ==
    /\ launch[s] = "posted"
    /\ engine' = TRUE
    /\ launch' = [launch EXCEPT ![s] = "ready"]
    /\ UNCHANGED <<rows, up, dbs, teardowns, sweeps, exposed, asked>>

\* CREATE ... IF NOT EXISTS, then ALTER USER: a database that is there keeps its data.
ProvisionSiteDatabase(s) ==
    /\ launch[s] = "ready" /\ engine
    /\ dbs' = [dbs EXCEPT ![Db(s)] =
           [user |-> s, data |-> IF Exists(Db(s)) THEN dbs[Db(s)].data ELSE NoSite]]
    /\ launch' = [launch EXCEPT ![s] = "provisioned"]
    /\ UNCHANGED <<rows, up, engine, teardowns, sweeps, exposed, asked>>

CreateContainer(s) ==
    /\ launch[s] = "provisioned"
    /\ \A t \in up : slug[t] # slug[s]
    /\ up' = up \cup {s}
    /\ launch' = [launch EXCEPT ![s] = "made"]
    /\ UNCHANGED <<rows, engine, dbs, teardowns, sweeps, exposed, asked>>

\* The container's entrypoint: wp core install, unless wp core is-installed.
InstallWordPress(s) ==
    /\ s \in up /\ engine
    /\ Exists(Db(s)) /\ dbs[Db(s)].user = s /\ dbs[Db(s)].data = NoSite
    /\ dbs' = [dbs EXCEPT ![Db(s)].data = s]
    /\ UNCHANGED <<rows, launch, up, engine, teardowns, sweeps, exposed, asked>>

----------------------------------------------------------------------------
(* DELETE /containers/:id, whoever asks for it.                            *)

Inspect(k, s) ==
    /\ teardowns[k] = Idle /\ s \in up
    /\ teardowns' = [teardowns EXCEPT ![k] = [phase |-> "inspected", site |-> s]]
    /\ asked' = asked \cup {s}
    /\ UNCHANGED <<rows, launch, up, engine, dbs, sweeps, exposed>>

\* It may fail, and does when the engine is stopped; the teardown goes on.
DropSiteDatabase(k) ==
    /\ teardowns[k].phase = "inspected"
    /\ teardowns' = [teardowns EXCEPT ![k].phase = "dropped"]
    /\ \/ engine /\ dbs' = Dropped(Db(teardowns[k].site))
       \/ UNCHANGED dbs
    /\ UNCHANGED <<rows, launch, up, engine, sweeps, exposed, asked>>

RemoveContainer(k) ==
    /\ teardowns[k].phase = "dropped" /\ teardowns[k].site \in up
    /\ up' = up \ {teardowns[k].site}
    /\ teardowns' = [teardowns EXCEPT ![k].phase = "removed"]
    /\ UNCHANGED <<rows, launch, engine, dbs, sweeps, exposed, asked>>

\* A request answered with an error, or "already_removed", goes no further.
TeardownFails(k) ==
    /\ teardowns[k].phase \in {"dropped", "removed"}
    /\ teardowns' = [teardowns EXCEPT ![k] = Idle]
    /\ UNCHANGED <<rows, launch, up, engine, dbs, sweeps, exposed, asked>>

\* stopEngineIfUnused lists the containers of the engine, then stops it.
CountUsers(k) ==
    /\ teardowns[k].phase = "removed"
    /\ teardowns' = [teardowns EXCEPT ![k] =
           IF up = {} THEN [@ EXCEPT !.phase = "unused"] ELSE Idle]
    /\ UNCHANGED <<rows, launch, up, engine, dbs, sweeps, exposed, asked>>

StopEngine(k) ==
    /\ teardowns[k].phase = "unused"
    /\ engine' = FALSE
    /\ teardowns' = [teardowns EXCEPT ![k] = Idle]
    /\ UNCHANGED <<rows, launch, up, dbs, sweeps, exposed, asked>>

----------------------------------------------------------------------------
(* The sweep: the API's keep list, then POST /databases/prune.             *)

ListKeptRunningOnly(w) ==   \* slip: rows still creating are left out of the list
    LET keep == {Db(s) : s \in {s \in held : status[s] = "running"}} IN
    /\ sweeps[w] = Idle
    /\ sweeps' = [sweeps EXCEPT ![w] = [phase |-> "sent", keep |-> keep, doomed |-> {}]]
    /\ UNCHANGED <<rows, launch, up, engine, dbs, teardowns, exposed, asked>>

ListKeptSubdomains(w) ==    \* slip: the list holds subdomains, not identifiers
    LET keep == {slug[s] : s \in {s \in held : status[s] \in {"creating", "running"}}} IN
    /\ sweeps[w] = Idle
    /\ sweeps' = [sweeps EXCEPT ![w] = [phase |-> "sent", keep |-> keep, doomed |-> {}]]
    /\ UNCHANGED <<rows, launch, up, engine, dbs, teardowns, exposed, asked>>

\* An empty list is never sent, but the one with no site of this engine may
\* still have sites of the other engine or with SQLite on it, or rows that came
\* back under another name.
ListKept(w) ==
    /\ sweeps[w] = Idle
    /\ sweeps' = [sweeps EXCEPT ![w] = [phase |-> "sent", keep |-> Kept, doomed |-> {}]]
    /\ UNCHANGED <<rows, launch, up, engine, dbs, teardowns, exposed, asked>>

SelectNothing(w) == {}      \* slip: the test of the prefix never matches
\* selectDatabasesToDrop; databases without the prefix are no Databases.
SelectDatabasesToDrop(w) == {d \in Databases : Exists(d)} \ sweeps[w].keep

ListSiteDatabases(w) ==
    /\ sweeps[w].phase = "sent" /\ engine
    /\ sweeps' = [sweeps EXCEPT ![w] =
           IF SelectDatabasesToDrop(w) = {} THEN Idle
           ELSE [phase |-> "dropping", keep |-> {}, doomed |-> SelectDatabasesToDrop(w)]]
    /\ UNCHANGED <<rows, launch, up, engine, dbs, teardowns, exposed, asked>>

DropDoomed(w, d) ==
    /\ sweeps[w].phase = "dropping" /\ d \in sweeps[w].doomed /\ engine
    /\ dbs' = Dropped(d)
    /\ sweeps' = [sweeps EXCEPT ![w] =
           IF sweeps[w].doomed = {d} THEN Idle
           ELSE [sweeps[w] EXCEPT !.doomed = @ \ {d}]]
    /\ UNCHANGED <<rows, launch, up, engine, teardowns, exposed, asked>>

\* The engine is stopped, or a statement fails.
SweepFails(w) ==
    /\ sweeps[w] # Idle
    /\ sweeps' = [sweeps EXCEPT ![w] = Idle]
    /\ UNCHANGED <<rows, launch, up, engine, dbs, teardowns, exposed, asked>>

----------------------------------------------------------------------------

LaunchStep(s) ==
    \/ EnsureEngineRunning(s) \/ ProvisionSiteDatabase(s) \/ CreateContainer(s)
    \/ LaunchDone(s) \/ LaunchFails(s)

TeardownStep(k) ==
    \/ DropSiteDatabase(k) \/ RemoveContainer(k) \/ TeardownFails(k)
    \/ CountUsers(k) \/ StopEngine(k)

Next ==
    \/ \E s \in Sites : LaunchStep(s) \/ EndRow(s) \/ InstallWordPress(s)
    \/ \E s \in Sites : \/ \E n \in Names : Reserve(s, n)
                        \/ \E k \in Teardowns : Inspect(k, s)
    \/ \E k \in Teardowns : TeardownStep(k)
    \/ \E w \in Sweeps : \/ ListKept(w) \/ ListSiteDatabases(w) \/ SweepFails(w)
                         \/ \E d \in Databases : DropDoomed(w, d)

Spec == Init /\ [][Next]_vars

\* The watchdog's interval keeps firing and sends a list that has a site of this
\* engine, for that one is not empty; an answer comes to every request, and a
\* drop every sweep asks for is carried out in the end.
Fairness ==
    /\ \A s \in Sites : WF_vars(LaunchStep(s))
    /\ \A w \in Sweeps : WF_vars(Kept # {} /\ ListKept(w))
    /\ \A w \in Sweeps : SF_vars(ListSiteDatabases(w))
    /\ \A d \in Databases : SF_vars(\E w \in Sweeps : DropDoomed(w, d))

FairSpec == Spec /\ Fairness

----------------------------------------------------------------------------
(* Properties.                                                             *)

\* From its provisioning on, a site has its database, under its own password:
\* sweeps and other teardowns leave it alone.  Left out are a launch that began
\* while a sweep was under way, whose list it is not on, or next to a site of the
\* same database identifier, and a site whose own container is being removed.
LiveSitesHaveDatabases ==
    \A s \in held \ (exposed \cup asked) :
        s \in up \/ launch[s] \in {"provisioned", "made"} =>
            Exists(Db(s)) /\ dbs[Db(s)].user = s

\* A database whose site is gone does not stay: when the drop of a teardown fails
\* or a launch fails after making one, the sweep reclaims it, as long as the
\* engine is up and some site is live.
LeakedDatabasesReclaimed ==
    \A d \in Databases :
        (Exists(d) /\ d \notin Kept) ~> (~Exists(d) \/ d \in Kept \/ Kept = {} \/ ~engine)

\* "A leaked database wastes disk but breaks nothing": no live site serves what
\* WordPress installed for another.
LeaksBreakNothing ==
    \A s \in held \cap up :
        status[s] = "running" /\ Exists(Db(s)) => dbs[Db(s)].data \in {s, NoSite}

\* The keep list includes rows still creating, so that the sweep does not "drop a
\* database out from under a launch in progress".
SweepSparesLaunches ==
    [][\A s \in held, w \in Sweeps :
           /\ launch[s] \in {"provisioned", "made"}
           /\ Exists(Db(s)) /\ sweeps'[w] # sweeps[w]
           => Exists(Db(s))']_vars
=============================================================================
