------------------------ MODULE SharedDatabaseProofs ------------------------
(***************************************************************************)
(* The shared engine, for any sites, subdomains, identifiers that collide  *)
(* or not, teardowns and sweeps.  What keeps a live site's database is who *)
(* else may name its identifier: nobody around it, and no sweep that was   *)
(* begun without it.                                                       *)
(***************************************************************************)
EXTENDS SharedDatabase, TLAPS

\* A site in none of the windows that LiveSitesHaveDatabases leaves out.
Sheltered == held \ (exposed \cup asked)

\* Rows, launches and containers go together.
RowsInv ==
    /\ \A s \in Sites : status[s] = "none" => launch[s] = "idle" /\ s \notin up /\ s \notin held
    /\ \A s \in Sites : status[s] # "none" => slug[s] \in Names
    /\ \A s \in held : status[s] \in {"creating", "running"}
    /\ \A s \in held : launch[s] # "idle" \/ s \in up \/ s \in asked
    /\ \A s \in Sites : launch[s] = "made" => s \in up \/ s \in asked
    /\ \A k \in Teardowns : teardowns[k] # Idle =>
          teardowns[k].site \in asked /\ status[teardowns[k].site] # "none"

\* Nobody else around has the identifier of a sheltered site.
AloneInv ==
    \A s \in Sheltered : \A t \in Around(Db(s)) : t = s

\* No sweep under way names it.
SweepInv ==
    \A s \in Sheltered, w \in Sweeps :
        /\ sweeps[w] # Idle /\ sweeps[w].phase = "sent" => Db(s) \in sweeps[w].keep
        /\ sweeps[w] # Idle => Db(s) \notin sweeps[w].doomed

DatabaseInv == TypeOK /\ RowsInv /\ AloneInv /\ SweepInv /\ LiveSitesHaveDatabases

LEMMA DatabaseStarts == Init => DatabaseInv
<1> SUFFICES ASSUME Init PROVE DatabaseInv
  OBVIOUS
<1>1. TypeOK
  BY DEF Init, TypeOK, Teardown, Sweep
<1>2. RowsInv
  BY DEF Init, RowsInv
<1>3. Sheltered = {} /\ held = {}
  BY DEF Init, Sheltered
<1> QED BY <1>1, <1>2, <1>3 DEF DatabaseInv, AloneInv, SweepInv, LiveSitesHaveDatabases

LEMMA TypeStep == TypeOK /\ RowsInv /\ [Next]_vars => TypeOK'
<1> SUFFICES ASSUME TypeOK, RowsInv, [Next]_vars PROVE TypeOK'
  OBVIOUS
<1>1. ASSUME NEW s \in Sites, NEW n \in Names, Reserve(s, n) PROVE TypeOK'
  <2>1. Around(Identifier[n]) \subseteq Sites
    BY DEF Around
  <2> QED BY <1>1, <2>1 DEF Reserve, TypeOK
<1>2. ASSUME NEW s \in Sites, EndRow(s) PROVE TypeOK'
  BY <1>2 DEF EndRow, TypeOK
<1>3. ASSUME NEW s \in Sites, LaunchDone(s) \/ LaunchFails(s) PROVE TypeOK'
  BY <1>3 DEF LaunchDone, LaunchFails, TypeOK
<1>4. ASSUME NEW s \in Sites, EnsureEngineRunning(s) \/ CreateContainer(s) PROVE TypeOK'
  BY <1>4 DEF EnsureEngineRunning, CreateContainer, rows, TypeOK
<1>5. ASSUME NEW s \in Sites, ProvisionSiteDatabase(s) PROVE TypeOK'
  <2>1. Db(s) \in Databases
    BY <1>5, IdentifierAssumption DEF ProvisionSiteDatabase, RowsInv, TypeOK, Db
  <2>2. (IF Exists(Db(s)) THEN dbs[Db(s)].data ELSE NoSite) \in Sites \cup {NoSite}
    BY <2>1 DEF TypeOK, Exists, Database
  <2>3. dbs' \in [Databases -> Database \cup {NoDatabase}]
    BY <1>5, <2>1, <2>2 DEF ProvisionSiteDatabase, TypeOK, Database
  <2> QED BY <1>5, <2>3 DEF ProvisionSiteDatabase, rows, TypeOK
<1>6. ASSUME NEW s \in Sites, InstallWordPress(s) PROVE TypeOK'
  <2>1. Db(s) \in Databases /\ dbs[Db(s)] \in Database
    BY <1>6, IdentifierAssumption DEF InstallWordPress, RowsInv, TypeOK, Db, Exists
  <2>2. [dbs[Db(s)] EXCEPT !.data = s] \in Database
    BY <2>1 DEF Database
  <2>3. dbs' \in [Databases -> Database \cup {NoDatabase}]
    BY <1>6, <2>1, <2>2 DEF InstallWordPress, TypeOK
  <2> QED BY <1>6, <2>3 DEF InstallWordPress, rows, TypeOK
<1>7. ASSUME NEW k \in Teardowns, NEW s \in Sites, Inspect(k, s) PROVE TypeOK'
  BY <1>7 DEF Inspect, rows, TypeOK, Teardown
<1>8. ASSUME NEW k \in Teardowns, TeardownStep(k) PROVE TypeOK'
  <2>1. teardowns[k] # Idle
    BY <1>8 DEF TeardownStep, DropSiteDatabase, RemoveContainer, TeardownFails, CountUsers, StopEngine, Idle
  <2>2. teardowns[k] \in [phase: {"inspected", "dropped", "removed", "unused"}, site: Sites]
    BY <2>1 DEF TypeOK, Teardown
  <2>3. /\ [teardowns[k] EXCEPT !.phase = "dropped"] \in Teardown
        /\ [teardowns[k] EXCEPT !.phase = "removed"] \in Teardown
        /\ [teardowns[k] EXCEPT !.phase = "unused"] \in Teardown
    BY <2>2 DEF Teardown
  <2>4. teardowns' \in [Teardowns -> Teardown]
    BY <1>8, <2>3
    DEF TeardownStep, DropSiteDatabase, RemoveContainer, TeardownFails, CountUsers, StopEngine, TypeOK, Teardown
  <2>5. dbs' \in [Databases -> Database \cup {NoDatabase}]
    BY <1>8
    DEF TeardownStep, DropSiteDatabase, RemoveContainer, TeardownFails, CountUsers, StopEngine, TypeOK, Dropped
  <2> QED
    BY <1>8, <2>4, <2>5
    DEF TeardownStep, DropSiteDatabase, RemoveContainer, TeardownFails, CountUsers, StopEngine, rows, TypeOK
<1>9. ASSUME NEW w \in Sweeps, ListKept(w) PROVE TypeOK'
  <2>1. Kept \subseteq Databases
    BY IdentifierAssumption DEF Kept, Db, RowsInv, TypeOK
  <2> QED BY <1>9, <2>1 DEF ListKept, rows, TypeOK, Sweep
<1>10. ASSUME NEW w \in Sweeps,
              ListSiteDatabases(w) \/ SweepFails(w) \/ \E d \in Databases : DropDoomed(w, d)
       PROVE  TypeOK'
  <2>1. sweeps[w] # Idle
    BY <1>10 DEF ListSiteDatabases, SweepFails, DropDoomed, Idle
  <2>2. sweeps[w] \in [phase: {"sent", "dropping"}, keep: SUBSET Databases, doomed: SUBSET Databases]
    BY <2>1 DEF TypeOK, Sweep
  <2>3. [phase |-> "dropping", keep |-> {}, doomed |-> SelectDatabasesToDrop(w)] \in Sweep
    BY DEF Sweep, SelectDatabasesToDrop
  <2>4. \A d \in Databases : [sweeps[w] EXCEPT !.doomed = sweeps[w].doomed \ {d}] \in Sweep
    BY <2>2 DEF Sweep
  <2>5. \A x \in Sweep : [sweeps EXCEPT ![w] = x] \in [Sweeps -> Sweep]
    BY DEF TypeOK
  <2>6. sweeps' \in [Sweeps -> Sweep]
    <3>1. CASE ListSiteDatabases(w)
      BY <2>3, <3>1 DEF ListSiteDatabases, TypeOK, Sweep
    <3>2. CASE SweepFails(w)
      BY <3>2 DEF SweepFails, TypeOK, Sweep
    <3>3. ASSUME NEW d \in Databases, DropDoomed(w, d) PROVE sweeps' \in [Sweeps -> Sweep]
      <4>1. CASE sweeps[w].doomed = {d}
        BY <3>3, <4>1 DEF DropDoomed, TypeOK, Sweep
      <4>2. CASE sweeps[w].doomed # {d}
        <5>1. sweeps' = [sweeps EXCEPT ![w] = [sweeps[w] EXCEPT !.doomed = sweeps[w].doomed \ {d}]]
          BY <3>3, <4>2 DEF DropDoomed, TypeOK
        <5> QED BY <2>4, <2>5, <5>1
      <4> QED BY <4>1, <4>2
    <3> QED BY <1>10, <3>1, <3>2, <3>3
  <2>7. dbs' \in [Databases -> Database \cup {NoDatabase}]
    BY <1>10 DEF ListSiteDatabases, SweepFails, DropDoomed, Dropped, TypeOK
  <2> QED BY <1>10, <2>6, <2>7 DEF ListSiteDatabases, SweepFails, DropDoomed, rows, TypeOK
<1>11. CASE UNCHANGED vars
  BY <1>11 DEF vars, rows, TypeOK
<1> QED
  BY <1>1, <1>2, <1>3, <1>4, <1>5, <1>6, <1>7, <1>8, <1>9, <1>10, <1>11 DEF Next, LaunchStep

LEMMA RowsStep == TypeOK /\ RowsInv /\ [Next]_vars => RowsInv'
<1> SUFFICES ASSUME TypeOK, RowsInv, [Next]_vars PROVE RowsInv'
  OBVIOUS
<1> USE DEF rows
<1>1. ASSUME NEW s \in Sites, NEW n \in Names, Reserve(s, n) PROVE RowsInv'
  BY <1>1 DEF Reserve, TypeOK, RowsInv
<1>2. ASSUME NEW s \in Sites, EndRow(s) PROVE RowsInv'
  BY <1>2 DEF EndRow, TypeOK, RowsInv
<1>3. ASSUME NEW s \in Sites, LaunchDone(s) PROVE RowsInv'
  <2>1. /\ status[s] # "none" /\ s \in up \cup asked
        /\ UNCHANGED <<slug, held, up, teardowns, asked>>
        /\ \A t \in Sites : status'[t] = IF t = s THEN "running" ELSE status[t]
        /\ \A t \in Sites : launch'[t] = IF t = s THEN "idle" ELSE launch[t]
    BY <1>3 DEF LaunchDone, TypeOK, RowsInv
  <2>2. held \subseteq Sites /\ \A k \in Teardowns : teardowns[k] # Idle => teardowns[k].site \in Sites
    BY DEF TypeOK, Teardown
  <2> QED BY <2>1, <2>2 DEF RowsInv
<1>4. ASSUME NEW s \in Sites, LaunchFails(s) PROVE RowsInv'
  BY <1>4 DEF LaunchFails, TypeOK, RowsInv
<1>5. ASSUME NEW s \in Sites, EnsureEngineRunning(s) PROVE RowsInv'
  BY <1>5 DEF EnsureEngineRunning, TypeOK, RowsInv
<1>6. ASSUME NEW s \in Sites, ProvisionSiteDatabase(s) PROVE RowsInv'
  BY <1>6 DEF ProvisionSiteDatabase, TypeOK, RowsInv
<1>7. ASSUME NEW s \in Sites, CreateContainer(s) PROVE RowsInv'
  BY <1>7 DEF CreateContainer, TypeOK, RowsInv
<1>8. ASSUME NEW k \in Teardowns, NEW s \in Sites, Inspect(k, s) PROVE RowsInv'
  BY <1>8 DEF Inspect, TypeOK, RowsInv, Idle
<1>9. ASSUME NEW k \in Teardowns, TeardownStep(k) PROVE RowsInv'
  <2>1. /\ UNCHANGED <<rows, launch, asked>>
        /\ \A j \in Teardowns : teardowns'[j] # Idle =>
              teardowns[j] # Idle /\ teardowns'[j].site = teardowns[j].site
    BY <1>9
    DEF TeardownStep, DropSiteDatabase, RemoveContainer, TeardownFails, CountUsers, StopEngine,
        TypeOK, Idle, Teardown
  <2>2. \A t \in up : t \in up' \/ t \in asked
    BY <1>9
    DEF TeardownStep, DropSiteDatabase, RemoveContainer, TeardownFails, CountUsers, StopEngine,
        RowsInv, Idle
  <2>3. up' \subseteq up
    BY <1>9
    DEF TeardownStep, DropSiteDatabase, RemoveContainer, TeardownFails, CountUsers, StopEngine
  <2> QED BY <2>1, <2>2, <2>3 DEF RowsInv
<1>10. CASE UNCHANGED <<status, slug, held, launch, up, teardowns, asked>>
  BY <1>10 DEF RowsInv
<1> QED
  BY <1>1, <1>2, <1>3, <1>4, <1>5, <1>6, <1>7, <1>8, <1>9, <1>10
  DEF Next, LaunchStep, InstallWordPress, ListKept, ListSiteDatabases, SweepFails, DropDoomed, vars

(***************************************************************************)
(* All but a reservation: the rows keep their names, nobody comes near an  *)
(* identifier, and sites leave the shelter but never enter it.             *)
(***************************************************************************)
Busy(s) ==
    \/ launch[s] # "idle" \/ s \in up
    \/ \E k \in Teardowns : teardowns[k] # Idle /\ teardowns[k].site = s

Quiet ==
    /\ slug' = slug /\ exposed' = exposed
    /\ held' \subseteq held /\ asked \subseteq asked'
    /\ \A s \in Sites : status'[s] # "none" => status[s] # "none"
    /\ \A s \in Sites : Busy(s)' => Busy(s)

LEMMA StepsAreQuiet ==
    ASSUME TypeOK, RowsInv, [Next]_vars
    PROVE  Quiet \/ \E s \in Sites, n \in Names : Reserve(s, n)
<1> USE DEF rows
<1>1. ASSUME NEW s \in Sites, EndRow(s) \/ LaunchDone(s) \/ LaunchFails(s) PROVE Quiet
  <2>1. /\ UNCHANGED <<slug, up, teardowns, exposed, asked>> /\ held' \subseteq held
        /\ \A t \in Sites : launch'[t] # "idle" => launch[t] # "idle"
        /\ status[s] # "none" /\ \A t \in Sites : t # s => status'[t] = status[t]
    BY <1>1 DEF EndRow, LaunchDone, LaunchFails, TypeOK, RowsInv
  <2> QED BY <2>1 DEF Quiet, Busy
<1>2. ASSUME NEW s \in Sites,
             EnsureEngineRunning(s) \/ ProvisionSiteDatabase(s) \/ CreateContainer(s)
      PROVE  Quiet
  <2>1. /\ UNCHANGED <<rows, teardowns, exposed, asked>>
        /\ launch[s] # "idle" /\ \A t \in Sites : t # s => launch'[t] = launch[t]
        /\ up' \subseteq up \cup {s}
    BY <1>2 DEF EnsureEngineRunning, ProvisionSiteDatabase, CreateContainer, TypeOK
  <2> QED BY <2>1 DEF Quiet, Busy
<1>3. ASSUME NEW k \in Teardowns, NEW s \in Sites, Inspect(k, s) PROVE Quiet
  <2>1. /\ UNCHANGED <<rows, launch, up, exposed>> /\ asked' = asked \cup {s} /\ s \in up
        /\ teardowns'[k].site = s
        /\ \A j \in Teardowns : j # k => teardowns'[j] = teardowns[j]
    BY <1>3 DEF Inspect, TypeOK
  <2> QED BY <2>1 DEF Quiet, Busy
<1>4. ASSUME NEW k \in Teardowns, TeardownStep(k) PROVE Quiet
  <2>1. /\ UNCHANGED <<rows, launch, exposed, asked>> /\ up' \subseteq up
        /\ \A j \in Teardowns : teardowns'[j] # Idle =>
              teardowns[j] # Idle /\ teardowns'[j].site = teardowns[j].site
    BY <1>4
    DEF TeardownStep, DropSiteDatabase, RemoveContainer, TeardownFails, CountUsers, StopEngine,
        TypeOK, Idle, Teardown
  <2> QED BY <2>1 DEF Quiet, Busy
<1>5. CASE UNCHANGED <<rows, launch, up, teardowns, exposed, asked>>
  BY <1>5 DEF Quiet, Busy
<1> QED
  BY <1>1, <1>2, <1>3, <1>4, <1>5
  DEF Next, LaunchStep, InstallWordPress, ListKept, ListSiteDatabases, SweepFails, DropDoomed, vars

\* What a reservation does to the others.
LEMMA ReservationStep ==
    ASSUME TypeOK, RowsInv, NEW r \in Sites, NEW n \in Names, Reserve(r, n)
    PROVE  /\ UNCHANGED <<up, dbs, teardowns, sweeps, asked>>
           /\ status[r] = "none" /\ launch'[r] = "posted" /\ slug'[r] = n
           /\ r \notin held /\ held' = held \cup {r}
           /\ \A s \in Sites : s # r => slug'[s] = slug[s] /\ status'[s] = status[s] /\ launch'[s] = launch[s]
           /\ exposed \cup Around(Identifier[n]) \subseteq exposed'
           /\ r \notin exposed' => /\ Around(Identifier[n]) = {}
                                   /\ \A w \in Sweeps : sweeps[w] = Idle
  BY DEF Reserve, TypeOK, RowsInv, Idle, rows

LEMMA ShelteredIsAround ==
    ASSUME TypeOK, RowsInv, NEW s \in Sheltered
    PROVE  s \in Sites /\ status[s] \in {"creating", "running"} /\ s \in Around(Db(s))
  BY DEF TypeOK, RowsInv, Sheltered, Around

LEMMA ShelterStep ==
    ASSUME TypeOK, RowsInv, [Next]_vars, NEW s \in Sheltered', ~\E n \in Names : Reserve(s, n)
    PROVE  s \in Sheltered /\ slug'[s] = slug[s]
<1>1. CASE Quiet
  BY <1>1 DEF Quiet, Sheltered
<1>2. ASSUME NEW r \in Sites, NEW n \in Names, Reserve(r, n) PROVE s \in Sheltered /\ slug'[s] = slug[s]
  BY <1>2, ReservationStep DEF Sheltered, TypeOK
<1> QED BY <1>1, <1>2, StepsAreQuiet

LEMMA AloneStep == TypeOK /\ RowsInv /\ AloneInv /\ [Next]_vars => AloneInv'
<1> SUFFICES ASSUME TypeOK, RowsInv, AloneInv, [Next]_vars,
                    NEW s \in Sheltered', NEW t \in Around(Db(s))', t # s
             PROVE  FALSE
  BY DEF AloneInv
<1>1. t \in Sites /\ status'[t] # "none" /\ Db(t)' = Db(s)' /\ Busy(t)'
  BY DEF Around, Busy
<1>2. CASE Quiet
  <2>1. s \in Sheltered /\ slug' = slug
    BY <1>2 DEF Quiet, Sheltered
  <2>2. status[t] # "none" /\ Busy(t) /\ Db(t) = Db(s)
    BY <1>1, <1>2, <2>1 DEF Quiet, Db
  <2> QED BY <1>1, <2>1, <2>2 DEF AloneInv, Around, Busy
<1>3. ASSUME NEW r \in Sites, NEW n \in Names, Reserve(r, n) PROVE FALSE
  <2>1. CASE t = r
    <3>1. s \in Sheltered /\ slug'[s] = slug[s]
      BY <1>3, <2>1, ReservationStep DEF Sheltered, TypeOK
    <3>2. Db(s) = Identifier[n]
      BY <1>1, <1>3, <2>1, <3>1, ReservationStep DEF Db
    <3>3. s \in Around(Identifier[n])
      BY <3>1, <3>2, ShelteredIsAround
    <3> QED BY <1>3, <3>3, ReservationStep DEF Sheltered
  <2>2. CASE t # r
    <3>1. status[t] # "none" /\ slug'[t] = slug[t] /\ Busy(t)
      BY <1>1, <1>3, <2>2, ReservationStep DEF Busy
    <3>2. CASE s = r
      <4>1. Db(t) = Identifier[n]
        BY <1>1, <1>3, <3>1, <3>2, ReservationStep DEF Db
      <4>2. t \in Around(Identifier[n])
        BY <1>1, <3>1, <4>1 DEF Around, Busy
      <4> QED BY <1>3, <3>2, <4>2, ReservationStep DEF Sheltered
    <3>3. CASE s # r
      <4>1. s \in Sheltered /\ slug'[s] = slug[s]
        BY <1>3, <3>3, ReservationStep DEF Sheltered, TypeOK
      <4>2. Db(t) = Db(s)
        BY <1>1, <3>1, <4>1 DEF Db
      <4> QED BY <1>1, <3>1, <4>1, <4>2 DEF AloneInv, Around, Busy
    <3> QED BY <3>2, <3>3
  <2> QED BY <2>1, <2>2
<1> QED BY <1>2, <1>3, StepsAreQuiet

LEMMA SweepStep == TypeOK /\ RowsInv /\ SweepInv /\ [Next]_vars => SweepInv'
<1> SUFFICES ASSUME TypeOK, RowsInv, SweepInv, [Next]_vars,
                    NEW s \in Sheltered', NEW w \in Sweeps, sweeps'[w] # Idle
             PROVE  /\ sweeps'[w].phase = "sent" => Db(s)' \in sweeps'[w].keep
                    /\ Db(s)' \notin sweeps'[w].doomed
  BY DEF SweepInv
<1>1. ~\E n \in Names : Reserve(s, n)
  <2>1. ASSUME NEW n \in Names, Reserve(s, n) PROVE FALSE
    <3>1. s \in Sites
      BY TypeStep DEF Sheltered, TypeOK
    <3> QED BY <2>1, <3>1, ReservationStep DEF Sheltered
  <2> QED BY <2>1
<1>2. s \in Sheltered /\ slug'[s] = slug[s]
  BY <1>1, ShelterStep
<1>3. s \in Sites /\ status[s] \in {"creating", "running"} /\ Db(s)' = Db(s)
  BY <1>2, ShelteredIsAround DEF Db
<1>4. CASE UNCHANGED sweeps
  BY <1>2, <1>3, <1>4 DEF SweepInv
<1>5. ASSUME NEW v \in Sweeps, v # w, \E x : sweeps' = [sweeps EXCEPT ![v] = x] PROVE sweeps'[w] = sweeps[w]
  BY <1>5 DEF TypeOK
<1>6. CASE ListKept(w)
  <2>1. sweeps'[w] = [phase |-> "sent", keep |-> Kept, doomed |-> {}]
    BY <1>6 DEF ListKept, TypeOK
  <2>2. Db(s) \in Kept
    BY <1>2, <1>3 DEF Kept, Sheltered
  <2> QED BY <1>3, <2>1, <2>2
<1>7. CASE ListSiteDatabases(w)
  <2>1. sweeps[w].phase = "sent" /\ sweeps[w] # Idle
    BY <1>7 DEF ListSiteDatabases, Idle
  <2>2. Db(s) \in sweeps[w].keep
    BY <1>2, <2>1 DEF SweepInv
  <2>3. sweeps'[w] = [phase |-> "dropping", keep |-> {}, doomed |-> SelectDatabasesToDrop(w)]
    BY <1>7 DEF ListSiteDatabases, TypeOK
  <2>4. sweeps'[w].phase = "dropping" /\ sweeps'[w].doomed = SelectDatabasesToDrop(w)
    BY <2>3
  <2> QED BY <1>3, <2>2, <2>4 DEF SelectDatabasesToDrop
<1>8. ASSUME NEW d \in Databases, DropDoomed(w, d)
      PROVE  /\ sweeps'[w].phase = "sent" => Db(s)' \in sweeps'[w].keep
             /\ Db(s)' \notin sweeps'[w].doomed
  <2>1. sweeps[w].phase = "dropping" /\ sweeps[w] # Idle
    BY <1>8 DEF DropDoomed, Idle
  <2>2. sweeps'[w] = [sweeps[w] EXCEPT !.doomed = sweeps[w].doomed \ {d}]
    BY <1>8 DEF DropDoomed, TypeOK
  <2>3. sweeps[w] \in [phase: {"sent", "dropping"}, keep: SUBSET Databases, doomed: SUBSET Databases]
    BY <2>1 DEF TypeOK, Sweep
  <2>4. sweeps'[w].phase = "dropping" /\ sweeps'[w].doomed = sweeps[w].doomed \ {d}
    BY <2>1, <2>2, <2>3
  <2> QED BY <1>2, <1>3, <2>1, <2>4 DEF SweepInv
<1>9. ~SweepFails(w)
  BY DEF SweepFails, TypeOK
<1>10. ASSUME NEW v \in Sweeps, v # w,
              \/ ListKept(v) \/ ListSiteDatabases(v) \/ SweepFails(v)
              \/ \E d \in Databases : DropDoomed(v, d)
       PROVE  sweeps'[w] = sweeps[w]
  <2>1. \E x : sweeps' = [sweeps EXCEPT ![v] = x]
    BY <1>10, Zenon DEF ListKept, ListSiteDatabases, SweepFails, DropDoomed
  <2> QED BY <1>10, <1>5, <2>1
<1>11. CASE sweeps'[w] = sweeps[w]
  BY <1>2, <1>3, <1>11 DEF SweepInv
<1> QED
  BY <1>4, <1>6, <1>7, <1>8, <1>9, <1>10, <1>11
  DEF Next, LaunchStep, EnsureEngineRunning, ProvisionSiteDatabase, CreateContainer, LaunchDone,
      LaunchFails, EndRow, InstallWordPress, Reserve, Inspect, TeardownStep, DropSiteDatabase,
      RemoveContainer, TeardownFails, CountUsers, StopEngine, vars

\* Only the site's own launch, its own teardown or a sweep that names it touch
\* the database, and the last two are ruled out.
LEMMA LiveStep == DatabaseInv /\ [Next]_vars => LiveSitesHaveDatabases'
<1> SUFFICES ASSUME TypeOK, RowsInv, AloneInv, SweepInv, LiveSitesHaveDatabases, [Next]_vars,
                    NEW s \in Sheltered', s \in up' \/ launch'[s] \in {"provisioned", "made"}
             PROVE  dbs'[Db(s)'] # NoDatabase /\ dbs'[Db(s)'].user = s
  BY DEF DatabaseInv, LiveSitesHaveDatabases, Sheltered, Exists
<1> USE DEF rows
<1>1. s \in Sites
  BY TypeStep DEF Sheltered, TypeOK
<1>2. ~\E n \in Names : Reserve(s, n)
  BY <1>1, ReservationStep DEF TypeOK, RowsInv
<1>3. s \in Sheltered /\ slug'[s] = slug[s] /\ Db(s)' = Db(s)
  BY <1>2, ShelterStep DEF Db
<1>4. s \in Sites /\ status[s] \in {"creating", "running"} /\ s \in Around(Db(s)) /\ Db(s) \in Databases
  BY <1>3, ShelteredIsAround, IdentifierAssumption DEF Around, RowsInv, TypeOK, Db
<1>5. s \in up \/ launch[s] \in {"provisioned", "made"} =>
         dbs[Db(s)] # NoDatabase /\ dbs[Db(s)].user = s
  BY <1>3 DEF LiveSitesHaveDatabases, Sheltered, Exists
<1>6. \A t \in Sites : t # s /\ status[t] # "none" /\ Busy(t) => Db(t) # Db(s)
  BY <1>3 DEF AloneInv, Around, Busy
<1>7. ASSUME NEW r \in Sites, NEW n \in Names, Reserve(r, n)
      PROVE  dbs'[Db(s)'] # NoDatabase /\ dbs'[Db(s)'].user = s
  <2>1. r # s
    BY <1>2, <1>7
  <2> QED BY <1>3, <1>4, <1>5, <1>7, <2>1, ReservationStep
<1>8. ASSUME NEW r \in Sites, EndRow(r) \/ LaunchDone(r) \/ LaunchFails(r)
      PROVE  dbs'[Db(s)'] # NoDatabase /\ dbs'[Db(s)'].user = s
  BY <1>3, <1>4, <1>5, <1>8 DEF EndRow, LaunchDone, LaunchFails, TypeOK
<1>9. ASSUME NEW r \in Sites, EnsureEngineRunning(r) \/ CreateContainer(r)
      PROVE  dbs'[Db(s)'] # NoDatabase /\ dbs'[Db(s)'].user = s
  BY <1>3, <1>4, <1>5, <1>9 DEF EnsureEngineRunning, CreateContainer, TypeOK
<1>10. ASSUME NEW r \in Sites, ProvisionSiteDatabase(r)
       PROVE  dbs'[Db(s)'] # NoDatabase /\ dbs'[Db(s)'].user = s
  <2>1. CASE r = s
    <3>1. dbs'[Db(s)] = [user |-> s, data |-> IF Exists(Db(s)) THEN dbs[Db(s)].data ELSE NoSite]
      BY <1>4, <1>10, <2>1 DEF ProvisionSiteDatabase, TypeOK
    <3>2. (IF Exists(Db(s)) THEN dbs[Db(s)].data ELSE NoSite) \in Sites \cup {NoSite}
      BY <1>4 DEF TypeOK, Exists, Database
    <3>3. dbs'[Db(s)] \in Database /\ dbs'[Db(s)].user = s
      BY <1>4, <3>1, <3>2 DEF Database
    <3> QED BY <1>3, <3>3, NullsAssumption
  <2>2. CASE r # s
    <3>1. Db(r) # Db(s)
      BY <1>6, <1>10, <2>2 DEF ProvisionSiteDatabase, Busy, RowsInv
    <3>2. dbs'[Db(s)] = dbs[Db(s)] /\ up' = up /\ launch'[s] = launch[s]
      BY <1>4, <1>10, <2>2, <3>1 DEF ProvisionSiteDatabase, TypeOK
    <3> QED BY <1>3, <1>5, <3>2
  <2> QED BY <2>1, <2>2
<1>11. ASSUME NEW r \in Sites, InstallWordPress(r)
       PROVE  dbs'[Db(s)'] # NoDatabase /\ dbs'[Db(s)'].user = s
  <2>1. up' = up /\ launch' = launch /\ dbs[Db(s)] \in Database
    BY <1>4, <1>5, <1>11 DEF InstallWordPress, TypeOK
  <2>2. dbs'[Db(s)] = dbs[Db(s)] \/ dbs'[Db(s)] = [dbs[Db(s)] EXCEPT !.data = r]
    BY <1>4, <1>11 DEF InstallWordPress, TypeOK
  <2>3. [dbs[Db(s)] EXCEPT !.data = r] \in Database
        /\ [dbs[Db(s)] EXCEPT !.data = r].user = dbs[Db(s)].user
    BY <2>1 DEF Database
  <2>4. dbs'[Db(s)] \in Database /\ dbs'[Db(s)].user = dbs[Db(s)].user
    BY <2>1, <2>2, <2>3
  <2> QED BY <1>3, <1>5, <2>1, <2>4, NullsAssumption
<1>12. ASSUME NEW k \in Teardowns, NEW r \in Sites, Inspect(k, r)
       PROVE  dbs'[Db(s)'] # NoDatabase /\ dbs'[Db(s)'].user = s
  BY <1>3, <1>5, <1>12 DEF Inspect
<1>13. ASSUME NEW k \in Teardowns, TeardownStep(k)
       PROVE  dbs'[Db(s)'] # NoDatabase /\ dbs'[Db(s)'].user = s
  <2>1. up' \subseteq up /\ launch' = launch
    BY <1>13 DEF TeardownStep, DropSiteDatabase, RemoveContainer, TeardownFails, CountUsers, StopEngine
  <2>2. CASE dbs' = dbs
    BY <1>3, <1>5, <2>1, <2>2
  <2>3. CASE DropSiteDatabase(k) /\ dbs' = Dropped(Db(teardowns[k].site))
    <3>1. teardowns[k] # Idle
      BY <2>3 DEF DropSiteDatabase, Idle
    <3>2. teardowns[k].site \in Sites /\ teardowns[k].site \in asked /\ status[teardowns[k].site] # "none"
      BY <3>1 DEF TypeOK, Teardown, RowsInv
    <3>3. Db(teardowns[k].site) # Db(s)
      BY <1>3, <1>6, <3>1, <3>2 DEF Sheltered, Busy
    <3>4. dbs'[Db(s)] = dbs[Db(s)]
      BY <1>4, <2>3, <3>3 DEF Dropped, TypeOK
    <3> QED BY <1>3, <1>5, <2>1, <3>4
  <2> QED
    BY <1>13, <2>2, <2>3
    DEF TeardownStep, DropSiteDatabase, RemoveContainer, TeardownFails, CountUsers, StopEngine
<1>14. ASSUME NEW w \in Sweeps, NEW d \in Databases, DropDoomed(w, d)
       PROVE  dbs'[Db(s)'] # NoDatabase /\ dbs'[Db(s)'].user = s
  <2>1. sweeps[w] # Idle /\ d \in sweeps[w].doomed
    BY <1>14 DEF DropDoomed, Idle
  <2>2. d # Db(s)
    BY <1>3, <2>1 DEF SweepInv
  <2>3. dbs'[Db(s)] = dbs[Db(s)] /\ up' = up /\ launch' = launch
    BY <1>4, <1>14, <2>2 DEF DropDoomed, Dropped, TypeOK
  <2> QED BY <1>3, <1>5, <2>3
<1>15. CASE UNCHANGED <<launch, up, dbs>>
  BY <1>3, <1>5, <1>15
<1> QED
  BY <1>7, <1>8, <1>9, <1>10, <1>11, <1>12, <1>13, <1>14, <1>15
  DEF Next, LaunchStep, ListKept, ListSiteDatabases, SweepFails, vars

THEOREM DatabaseCorrect == Spec => []DatabaseInv
<1>1. DatabaseInv /\ [Next]_vars => DatabaseInv'
  BY TypeStep, RowsStep, AloneStep, SweepStep, LiveStep DEF DatabaseInv
<1> QED BY <1>1, DatabaseStarts, PTL DEF Spec

\* Rows, launches, teardowns, sweeps and databases stay in the shapes their
\* handlers give them, however the requests interleave.
THEOREM DatabaseTypeCorrect == Spec => []TypeOK
BY DatabaseCorrect, PTL DEF DatabaseInv

\* A site that began next to no sweep and no namesake, and whose container nobody
\* asked to remove, has its database under its own password, from its provisioning
\* on: for any number of launches, teardowns and sweeps of any sites.
THEOREM LiveSitesKeepDatabases == Spec => []LiveSitesHaveDatabases
BY DatabaseCorrect, PTL DEF DatabaseInv
=============================================================================
