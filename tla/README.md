# TLA+ models of WP Launcher

WP Launcher starts disposable WordPress sites in Docker containers. This
directory specifies the parts of it where the order of things matters: the life
of a site, the clean-ups that run beside it, the shared database engines, the
OAuth server that lets agents act for a user, and the services of the panel that
work beside the sites: scheduled launches, bulk jobs, image builds, snapshots,
notifications, invoices, boards and heartbeats. TLC checks the modules on small
instances; TLAPS proves the main results for instances of any size.

## The system

The API (`src/packages/api/src`) is one Node process over one SQLite file opened
with better-sqlite3, whose calls are synchronous. Code between two `await`s is
therefore atomic, a `db.transaction` included, and everything interesting
happens at an `await`. The provisioner (`src/packages/provisioner/src`) is a
second process that owns the Docker socket; the API calls it over HTTP and waits.
A site's container installs WordPress by itself (`src/wordpress/entrypoint.sh`).

| Component | State | Operations | Hard behaviour | Correct when | Modelled in |
|---|---|---|---|---|---|
| Site life cycle (`site.service.ts`) | `sites` rows: status, subdomain, container id, expiry | launch, bind-mount upgrade, delete, extend, clear | the answer of a launch comes after a delete; background tasks die with the process | limits and names are exclusive, a row owns its container, launches settle | `SiteReservation`, `SiteLifecycle` |
| Clean-ups (`cleanup.service.ts`, `routes/monitoring.ts`) | none of their own: a container list, a row set | expiry cron, orphan watchdog, inverse sweep, force-remove, stale clean-up | they act on lists that have aged | no live site is removed, leftovers are | `SiteLifecycle` |
| Shared database engines (`db-engine.ts`, `shared-db.ts`, the sweep) | databases, users, the engine's container | provision, drop, prune, start and stop | keep list in one process, list of databases in the other | a live site has its database, leaks are reclaimed | `SharedDatabase` |
| OAuth server (`oauth/*`, `routes/oauth.ts`) | codes, grants, tokens | approve, redeem, refresh, revoke, prune | replays, reuse, races with password and role changes | one grant per app, revocation is final | `Approvals`, `OAuthGrants` |
| Users (`user.service.ts`) | role, `token_version` | change of password, e-mail, role | version read before two awaits | every change ends what came before | `OAuthGrants` |
| Scheduled launches (`schedule.service.ts`) | `scheduled_launches` rows, the rows a tick still holds | schedule, cancel, tick, restart | ticks overlap a slow launch, cancellation during a tick, restart | launched once, taken when due | `ScheduledLaunches` |
| Bulk jobs (`bulk.service.ts`) | job rows, signals in memory | start, cancel, the loop, restart | cancellation during an await, restart | every site accounted for, none begun after a cancel, jobs end | `BulkJobs` |
| Image builds (`imageBuildJob.service.ts`, `imageAdmin.service.ts`) | `image_builds` rows, a promise chain, Docker's tags | enqueue, build, tag, remove, reconcile | Docker goes on without its job; streams break; restart | `:latest` names the default tag's image, every job ends | `ImageBuilds` |
| Snapshots and clones (`snapshot.service.ts`) | rows, archives, what a site holds | take, delete, restore, clone | three stores changed at three times | limit, rows have archives, the badge tells the truth | `Snapshots` |
| Notifications (`notification.service.ts`) | `notifications` rows, preferences | tell, mail, digest | digest beside a mail in flight, refused and unconfirmed mails, restart | mailed once, never when switched off, never lost | `Notifications` |
| Invoices and proofs (`project.service.ts`, `paymentProof.service.ts`, `paymentMethod.service.ts`) | invoices, proofs, methods | create, number, send, upload, accept, reject | staff decide on invoices and proofs in any order | the queue has something to decide, numbers stay, paid stays paid | `Invoices` |
| Board (`board.service.ts`, `boardOrder.ts`) | columns and cards with positions | create, move, reorder, delete | orders kept by hand over long sequences of calls | positions run from 0 without a gap | `Board` |
| Heartbeats (`heartbeat-core`, `routes/productivity.ts`, `productivity.service.ts`) | the editor's queue and timer, stored beats | enqueue, flush, post, store, restart | lost answers, posts that throw, hang or cross, an unreachable panel, a full queue | no beat is lost or counted twice but in the ways the code has, the queue drains | `Heartbeats` |
| MCP server (`mcp/*`) | sliding windows | the request pipeline | none across an await | every tool call was checked | not modelled |

Components interact through three things only: rows of the one database, HTTP
requests from the API to the provisioner, and the labels a container carries
from its launch. `PROJECT.json` lists every component, those that stay out too,
and each hazard at its line.

## Modules

| Module | What it is |
|---|---|
| `SiteReservation` | Abstract: slots under caps, exclusive names, slots that end once. Three variables, two actions. It has no run of its own: `SiteLifecycle` is checked against it, and its own properties are proved. |
| `SiteLifecycle` | The detailed model; implements `SiteReservation`. |
| `Approvals` | Abstract: approvals that are offered, granted in place of another, narrowed, ended. Three variables, four actions. |
| `OAuthGrants` | Codes, grants, tokens and the user columns they are checked against; implements `Approvals`. |
| `SharedDatabase` | One engine, the launches and teardowns that use it, and the sweep. |
| `ScheduledLaunches`, `BulkJobs`, `ImageBuilds`, `Snapshots`, `Notifications`, `Invoices`, `Board`, `Heartbeats` | One service of the panel each. |
| `PanelServices` | The eight of them in one specification. |
| `MC*` | Constants and symmetry for TLC. |
| `SiteReservationProofs`, `SiteLifecycleProofs`, `OAuthGrantsProofs`, `SharedDatabaseProofs` | Theorems about the module they extend. |
| `JobsProofs` | Theorems about `ScheduledLaunches`, `BulkJobs`, `ImageBuilds`, `Notifications` and `Heartbeats`. |
| `RecordsProofs` | Theorems about `Invoices`, `Snapshots` and `Board`. |
| `SequenceLemmas` | What the lists of the two above need: appending, dropping and removing an element. |
| `PanelServicesProofs` | The panel implements its services and keeps what they keep. |

The definitions marked `slip` are mistakes one could make in the code. No
action uses them; each one, put in the place of the definition below it, breaks
a property, which shows that the property depends on that line of code.

### SiteLifecycle

* A row is `status`, `slug` (the subdomain it was inserted with), `held` (the
  column still is that subdomain; every rename appends a unique suffix, so a row
  that is not in `held` can be found by nobody's subdomain) and `cid`. The status
  `gone` is a deleted row. `ended` is history: rows some clean-up marked
  finished. A revived row stays in it, which is why `SiteReservation` counts
  `Active \ ended`.
* `launch[s]` is where the launch stands: `posted` (row inserted, request on its
  way), `accepted` (in the provisioner), `made` (container created, answer on its
  way); then, for sites with direct file access, `polling`, `swap` (request
  sent), `torn` (old container removed), `swapped`. `reply[s]` is the container
  the provisioner answers with and, during `swap`, the one the upgrade asked for:
  the id is read before the request, the row may point elsewhere by the time it is
  served.
* `removals` are `DELETE /containers/:id` requests with what their caller does
  next: nothing (`teardown`), expire a row (`cron`, `lapsed`), expire by container
  or by subdomain (`force`, `stale`), or go on with the loop (`orphan`).
* The watchdog keeps the container list of its beginning (`live`) and what is
  left of it (`todo`). `Scan` is everything up to the next `await`: containers
  that are fine are skipped, the next one that is not is asked to be removed, or
  the loop ends and the inverse sweep runs in the same step. Rows are read when
  the loop reaches them, as in the code.
* `age`, `lapsed` and `extended` are the two clocks: `expires_at` in the table
  and the label of the container. `age = 2` means the UTC day of the expiry is
  over: the cron compares `2026-01-01T10:00` with `2026-01-01 12:00` as strings,
  and the `T` makes the first the larger one all day (`cleanup.service.ts:54`).
* `Restart` forgets every task of the API. Requests the provisioner has carry on
  (`lost`, `by = "nobody"`), their answers go nowhere.

### OAuthGrants

Each transaction of `token.service.ts` is one action. A decision waits for the
client's metadata document (`Decide`, `Approve`), a change of password for
bcrypt (`PasswordRead`, `PasswordWritten`). A token is an access and refresh
pair: the two share their grant, scopes and fate. Codes and tokens cannot be
guessed, so whoever presents one presents one that was minted, any number of
times. `cut` and `outdated` are history. Requests that are refused without a
change of state (PKCE, resource, client mismatch) are not actions. `RevokeGrant`
needs no token, which allows more than the code does. Deletion of a user is
`SetRole` taking the entitlement away.

`Approvals` says what all of it comes to. The refinement takes a code for its
approval: it is offered while the code is pending, granted while a live grant
came from the code, and ended after that; its scopes are the code's, then those of the
token the next refresh has to start from. So `Approve` is `Offer`, `Redeem` is
`Grant` (which ends the app's previous approval in the same step), `Rotate` is
`Narrow`, and every revocation, replay, reuse, refusal and expiry is `End` or a
stutter. Entitlement is not part of it: a user who lost the role keeps approvals
nobody can use.

### SharedDatabase

The API inserts rows and reads the keep list; the provisioner starts the
engine, creates databases and containers, drops them in teardowns, and serves
the prune. A launch whose answer is lost is `EndRow` while its handler goes on;
`LaunchFails` is the handler's own end. The keep list may hold no site of this
engine (it names revived rows and sites on SQLite too), so the sweep may be sent
with `keep = {}`. `Identifier` maps subdomains to database names and is not assumed to
be one-to-one (20 characters and four hex digits). A database has the site whose
password its user carries and the site whose WordPress it holds. `exposed` and
`asked` are history that names the windows `LiveSitesHaveDatabases` leaves out.
The status `ended` stands for error and expired. One engine stands for both,
since nothing but the keep list is common to them.

### The services of the panel

A turn of the event loop is one action, so an action ends where the code awaits.

* `ScheduledLaunches`: a tick holds the row it launches and those behind it.
  `BeginLaunch` marks a row without a look at its status, as the code does, so an
  overlapping tick may take rows that wait behind a slow launch (`shared`).
* `BulkJobs`: the loop waits for `createSite` or for its pause; `signal` is the
  entry of `activeJobs`, which goes with the process (`cut`).
* `ImageBuilds`: `queue` and `running` are the promise chain, `docker` the builds
  that go on after their job gave up. `image` and `latest` are what the tags name;
  `astray` is history, set when something told the alias and the default tag apart
  without the job at work.
* `Snapshots`: a row (`kept`), its archive (`archive`) and what the site holds
  (`content`) are changed by different steps of a call. `RestoreMissed` is the
  answer 404, which `provisionerFetch` takes as success: the row is stamped whatever
  the site holds. `crowded` and `blurred` name the windows of `SnapshotLimit` and `BadgeTellsContent`. Nothing happens to
  a clone after it was made, and nobody asks what it holds: a clone is a site like
  any other, and only its making touches snapshots.
* `Notifications`: one row per event and recipient. A row may be in `sending` (its
  own mail) and in the digest's `rows`; `raced` and `unsure` are the two windows
  in which it is mailed twice: both ways at once, or again after an answer of the
  mail server was lost (`MailUnconfirmed`, `DigestUnconfirmed`).
* `Invoices`: synchronous, but decided on by staff and clients in any order. The
  status `overdue` is read by the code and never written, and is left out.
* `Board`: every operation rewrites the integers of one or two lists; rows with
  equal integers may come in any order, which is a choice here. An operation
  chooses the new positions as a function of the rows, so that no list of rows is
  built; `Listed` are the places of a caller's list that name a column of the
  board, and the last place of a column counts, as its last `UPDATE` does.
  `doubled` are boards whose reorder named a column twice.
* `Heartbeats`: beats are numbered in the order they are made, so two numbers tell
  their ages: `aged` (two minutes, the debounce and the window of `isDuplicate`) and
  `overdue` (seven days, found by the panel when it validates). `IsDuplicate` asks
  for any row of the file that is young enough, another beat's included; what it
  holds back is in `dropped`. The queue is posted whole; `PutBack` puts a failed
  batch before what came meanwhile and trims the oldest. A post ends in one of five
  ways: taken, refused, failed, taken without the editor hearing of it, or hanging on
  an answer that breaks off. The last one, and a `flush` that throws (`FlushThrows`),
  take the timer with them (`timerSet`), since it is set again only after `flush`
  returned. `EditorRestarts` is `dispose` and the next `start`, or a kill: posts of
  the former queue carry on beside the new one, which debounces nothing of it
  (`since`). `MaxBatch` is smaller than `MaxQueue`, as 100 is smaller than 500 in the
  code.

The eight services share one process and one database and no row of it, so the
interleavings between two of them only multiply states. `PanelServices` therefore
has a variable `focus`: a behaviour follows one service and the others rest where
they started. `PanelImplementsServices` proves that the panel implements each
service's own specification. `OneStart` fixes the initial choices of services out
of focus.

## Runs

| Run | Bounds | Shows |
|---|---|---|
| `SiteLifecycle` | 2 rows, 2 names, 2 containers, one slot, 1 removal at a time, no restart | `LimitsHeld`, `NamesHeld`, `NoLiveSiteTornDown`, and `ImplementsReservation` (refinement) |
| `SiteLifecycleLive` | 1 row with direct file access, 2 containers, 1 restart, fair | `RowsOwnTheirContainers`, `OrphansAreRemoved`, `DeadRowsExpire`, `LaunchSettles` |
| `OAuthGrants` | 1 user, 1 client, 2 scopes, 2 codes, 2 grants, 3 token pairs, 1 change | `OneLiveGrant`, `OneGrantPerCode`, `OneRefreshToken`, `ScopesOnlyNarrow`, `CutApprovalsStayCut`, and `ImplementsApprovals` (refinement) |
| `SharedDatabase` | 2 sites, 2 names, 2 databases, 1 teardown, 1 sweep, fair | `LiveSitesHaveDatabases`, `LeakedDatabasesReclaimed` |
| `PanelServices` | below; fair | the 21 properties below |

`PanelServices` follows one service per behaviour, over these sizes:

| Service | Bounds | Shows |
|---|---|---|
| launches | 2 rows, 2 ticks | `LaunchedOnceUnlessShared`, `DueLaunchesTaken` |
| bulk | 2 jobs of 3 sites | `SitesAccountedFor`, `NoSiteAfterCancel`, `BulkJobsEnd` |
| builds | 2 builds, 2 tags | `LatestFollowsDefault`, `BuildsFinish` |
| snapshots | 2 sites (1 a clone), 2 calls at once, limit 1, 2 snapshots drawn | `SnapshotLimit`, `RowsHaveArchives`, `BadgeTellsContent` |
| notes | 2 events, 1 recipient, 1 restart | `MailedOnceUnlessRaced`, `SuppressedNeverMailed`, `PendingNewsArrives` |
| invoices | 2 invoices, 2 proofs, 1 method | `AwaitingHasPending`, `IssuedNumbersStay`, `SettledInvoicesStay` |
| board | 2 projects, 2 columns, 3 cards, index up to 3, lists up to 2 | `CardsInOrder`, `ColumnsInOrder` |
| heartbeats | 1 file, 3 beats, queue of 2, batch of 1, 1 beat found seven days old, restarts while at most 2 beats were made and no post of an earlier queue is under way | `BeatsCountedOnce`, `BacklogDrains` |

Two rows and two ticks are a row waiting behind a slow launch while another tick
selects it. Three sites make a middle one, after which a cancellation finds
both a pause and a next site. Two builds are a queue behind a running job. With a
limit of one, the second snapshot already evicts the first, and two calls are two
snapshots, or a restore beside a deletion. Two events to one recipient make a
digest that meets a mail in flight beside a row that waits. Two proofs are the
rejection that must not hand the invoice back. Three cards in two columns make
every kind of move, with an index beyond the end. A queue of two with a batch of
one is a queue that overflows and one that has grown too long to be taken; three
beats of one file are a beat that is dropped beside another's row, across a restart
and with posts that cross, and one behind it.
`PanelTypeOK` is their common type invariant. The run is not checked for
deadlock: a behaviour may spend its rows.

Why the bounds of the others are enough to be interesting: two rows for one slot are
what it takes for a reuse of a subdomain, and for a watchdog's list to be about
a row that is not there any more; with a second name the two rows can also ask
for the one slot without colliding, so that the cap alone must refuse one (the
restart is left to the one-row run there, and to the proofs, which have it with
any number of rows); a second container is what the upgrade
and a reused subdomain need; three token pairs are a redemption, a rotation and
a reuse; two codes are a re-authorisation and a late redemption. The proofs
remove these bounds for every safety property of these four runs.
`SiteLifecycle` and `OAuthGrants` are checked for deadlock; `SharedDatabase` is not,
because a run may spend every row and have nothing left to do, nor is
`SnapshotStamps`, which may spend its one snapshot. Symmetry is used in safety runs only. One watchdog runs at a time: the
interval is five minutes and a second loop started by hand (`/cleanup/orphans`)
would have to overlap the first.

### Disagreements between the code and its comments

Seven runs expect a violation, each of one sentence the repository states:

| Run | What the code does |
|---|---|
| `SiteTerminalRows` | A late launch answer revives a deleted row (`site.service.ts:317`). |
| `SiteInverseSweep` | A row that became running after the list was taken is swept although its container exists (`cleanup.service.ts:147`). |
| `SiteExtension` | Extending a site does not move the label the watchdog goes by (`cleanup.service.ts:122`). |
| `OAuthPassword` | Overlapping changes write one `token_version` twice (`user.service.ts:217`). |
| `SharedLeaks` | A leaked database is served by the next site of that subdomain (`db-engine.ts:176`). |
| `SharedSweep` | The sweep can drop the database of a launch in progress (provisioner `index.ts:2061`). |
| `SnapshotStamps` | A restore answered with a 404, because its archive or container is gone, is recorded as done (`snapshot.service.ts:91`). |

### Fairness

Weak fairness of a launch's steps: every awaited request is answered, if only
with an error. Weak fairness of the watchdog's beginning and loop: it is a
`setInterval`. Strong fairness of the removals the watchdog asks for: Docker may
refuse a removal any number of times, but not every time. Strong fairness of the
sweep's list and drops, for the same reason. Nothing is assumed of users, of the
cron or of restarts; `LaunchSettles` says what a restart costs.

Of the panel's services: a tick of the scheduler comes every minute and a site it
waits for is answered; a bulk job's call is answered and its pause is a timer;
Docker ends every build and the queue's promise chain goes on; the digest runs
every day and a mail is taken, refused or times out (`PendingNewsArrives` assumes
in addition that from some time on the mail server works and its answers to digests
come back); the editor's timer fires as long as it is set, and a post is answered or
times out after ten seconds. `BacklogDrains` assumes a panel that can be reached and
a timer that is set from some time on: the code does not guarantee the second, since
a `flush` that throws, or waits for an answer that broke off, never sets it again,
and only the next start of the editor does. Nothing is
assumed of users or restarts, and nothing at all of snapshots, invoices and boards.

## Proofs

All theorems hold for every value of the constants under the assumptions named
in the modules: finitely many rows, null values outside their sets, limits that
are positive numbers.

* `SiteReservationProofs`: type correctness, that caps hold and names are
  exclusive, and that a slot is spent once. What the constants must satisfy is a
  hypothesis of each theorem (`SitesFinite`, `CapsProper`, `NamesProper`).
  `WithinCaps` rests on `RoomForOne`, which says that adding one row below a limit keeps it.
* `SiteLifecycleProofs`: type correctness needs `Located` (containers under
  removal, in an answer or on the watchdog's list have an origin), so the two are
  proved together. `RowInv` then says how status, `held`, `ended` and `launch`
  agree (a row in `held` that never ended is live, and so on), `NameInv` that
  subdomains in `held` are exclusive, `LinkInv` that containers and answers belong
  to the row that has them. From these follow `ContainersOwned`, `LiveSitesKept`
  and, with `RowSteps` sorting every action into one that reserves, releases or
  leaves the table alone, `TableImplementsReservation`. `PromiseKept` carries what is
  proved of the abstract table through the refinement, and `LimitsHold` and
  `NamesKept` state it of the rows of the real one.
* `OAuthGrantsProofs`: one invariant `IInv`. The properties speak of grants and
  tokens; to be inductive they need the codes too (a grant's code is used and
  points back to it, a pending code has no grant), that a cut approval's code is
  not pending or its grant is revoked, and that a token's scopes lie within those
  of every rotated token of its grant. `ApprovalsImplemented` sorts the steps: one
  that mints, grants and issues nothing and revives nothing (`OnlyEnds`) is an
  `End` or a stutter (`EndsEnd`), and the other three are `Offer`, `Grant` and
  `Narrow`. It takes `OneRefreshToken` to know what a refresh leaves to be refreshed
  from, and `OneGrantPerCode` to know that a replaced approval has no other grant.
* `SharedDatabaseProofs`: a site is sheltered when it is live and in none of the
  windows. What it has to fear is another site around its identifier, or a sweep
  that was begun without it. `AloneInv` says nobody else is around, `SweepInv`
  that every keep list on its way has it and no list of drops does, `RowsInv` that
  rows, launches and containers go together. A reservation is the only step that
  brings a site near an identifier (`StepsAreQuiet`), and it exposes whom it meets.

`JobsProofs`:

* scheduled launches: a row outside `shared` is held by one tick at most and
  in one place of it (`HeldOnce`); from this a second launch is impossible;
* bulk jobs: counts, loop and signal agree (`LoopInv`);
* image builds: `AliasInv`, and `HeldInv` (a job is at one place of the queue, or
  at work, and then its row says so);
* notifications: a row outside the windows is on one way only, and while it waits
  it was never mailed (`RowOK`);
* heartbeats: `BeatsCountedOnce` needs `OnePlace`: a beat is in the queue or in one of
  the three posts, never in two, although editors restart beside their posts and `PutBack` joins a failed batch with what came
  meanwhile and cuts the oldest. What is left of a list that is cut (`NewestKept`)
  is shown for lists of any length.

`RecordsProofs`:

* invoices: the next number is beyond all others, for which the maximum has
  to exist: `NumbersBounded` is part of the invariant, and the induction is over
  well-founded order, not over data. Issued invoices are live with the number they
  were issued with, and proofs belong to issued invoices;
* snapshots: `SnapshotsInv` has a part for each property. `RowsInv`: rows name
  different snapshots, and none a request is still taking. `LimitInv`: on a site
  outside `crowded` at most one request takes a snapshot, and while it does there
  is room for its row, because the oldest goes before the archive is awaited.
  `BadgeInv`: on a site outside `blurred` at most one request restores,
  the content is that request's from `put` on, and otherwise what the last stamp
  says. Rows are sequences from which any element may go, so the proofs rest on
  what `RemoveFirst` leaves (`SequenceLemmas`);
* boards: a column in order is a set of n rows whose positions are 0 to n - 1
  (`Filled`). `OrderFills` says that n different positions below n are all of them,
  by cardinalities; `RenumberingsFill`, `MovesFill` and `ReorderedFill` apply it to
  the three ways the code renumbers. `Placed` says that a card is in a column of a
  project that is there, and that boards and columns are finite at any time, which
  is proved and not assumed. For `ReorderColumns` the caller's list may have any
  length, leave columns out and name columns of other boards.

`PanelServicesProofs`: `PanelImplementsServices` maps the panel to each service's
specification, fairness included. Through it every theorem above holds of the
panel: `PanelTypeCorrect`, `PanelKeepsInvariants` (thirteen invariants at once)
and `PanelKeepsSteps` (the three action properties).

Every invariant, every action property and the refinement that the runs check
are therefore stated by a theorem too. Only model-checked are the liveness
properties, which are out of the prover's reach.

## Observations without a run of their own

Found while modelling, and visible in the definitions named:

* `cleanupSiteSnapshots` is called by nobody, so snapshots outlive their sites
  (`SiteEnds`); and since `clearFinishedSites` is one `DELETE`, one finished site
  with a snapshot keeps all finished sites in the table (`SitesCleared`).
* A Docker stream that breaks ends the provisioner's answer without an error
  (`provisioner/src/index.ts:859`), and the job goes on to success
  (`BuildStreamBreaks`).
* A 404 of the provisioner is success for whoever calls `provisionerFetch`. Beside the
  restore of `SnapshotStamps`, the job that moves `:latest` takes it so too
  (`TagLatest`).
* `isDuplicate` looks for any row of the file and machine, not for the beat's own: a
  beat made after the editor restarted, or posted beside a former post, is answered
  with 200 and not stored (`IsDuplicate`, `dropped`).
* The timer of the heartbeat queue is set again only after `flush` returned: an address
  that is no URL, or an answer that breaks off, stops it, and the batch of the throw is
  gone (`FlushThrows`, `PostHangs`).
* A restore empties `wp-content` before the archive is read (`ContentCleared`,
  `ContentPut`): a failure in between leaves the site empty.
* A heartbeat queue that grew beyond 100 is posted whole, refused whole and put
  back whole, until the editor is closed (`Acceptable`, `PutBack`).
* A draft with payment methods cannot be deleted: nothing detaches them and the
  foreign key refuses (`DeleteInvoice`).
* An accepted proof pays its invoice whatever the invoice's status is, a cancelled
  one too (`AcceptPaymentProof`).
* A restart in the middle of `notifyClient` leaves the remaining recipients without
  a row (`NotesRestart`).
* A reorder that names a column twice leaves a gap in the positions, and the next
  column made ties with the last (`Reordered`, `CreateColumn`).
* A tick launches a row that was cancelled after it was selected, and two ticks may
  launch one row twice (`BeginLaunch`).

## Not modelled

The map covers the code where order matters, which is a small share of the
repository: more than half of its lines are pages and components of the
dashboard, and most of the rest is listings, formatting, HTML of mails and
invoices, configuration and argument checking. A state machine of those would
restate them. In particular:

* the dashboard, the CLI, the editors' user interfaces and the mu-plugins: clients
  without state that outlives a form;
* the MCP server: its checks and its window are synchronous, nothing is awaited
  between a check and its count;
* site synchronisation, shares, tunnels and custom domains: state of WordPress, of
  cloudflared and of the reverse proxy;
* blueprints, features, settings, restrictions and policy: configuration, which
  enters `SiteLifecycle` as constants;
* schema migrations, e-mail templates, webhooks, analytics and file storage;
* registration and caching of OAuth clients, PKCE, redirect URIs; registration,
  invitation and verification of users; the portal's messages;
* host directories, logs, contents of containers; rows cleared while the database
  model runs; the pre-shared-engine sidecars; a second concurrent watchdog;
* the notification centre, cards' texts and activity, totals of invoices, the beats of
  browsers and WordPress screens, the clearing of old beats, a post that reaches the
  panel after the editor gave it up, the statistics and the cloud sync of productivity,
  the database dump in a snapshot, a clone after it was made.
