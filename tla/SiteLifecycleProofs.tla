------------------------ MODULE SiteLifecycleProofs ------------------------
(***************************************************************************)
(* SiteLifecycle implements SiteReservation, and no teardown reaches a     *)
(* container whose launch is not over, for every value of the constants.   *)
(***************************************************************************)
EXTENDS SiteLifecycle, FiniteSetTheorems, TLAPS

\* What each status says of the row: whether it still holds its subdomain,
\* whether a clean-up has seen it, and whether its launch is over.
RowInv ==
    \A s \in Sites :
        /\ s \in held => status[s] \in {"creating", "running", "expired"} /\ slug[s] \in Names
        /\ status[s] \in {"creating", "running"} => s \in held \/ s \in ended
        /\ status[s] = "expired" => s \in ended
        /\ status[s] = "none" => s \notin ended /\ launch[s] = "idle"
        /\ status[s] = "error" => launch[s] = "idle"

\* No two rows hold the same subdomain.
NameInv == \A s, t \in held : slug[s] = slug[t] => s = t

\* A running row has a container id, and so has an answer that is to be recorded.
Located ==
    \A s \in Sites :
        /\ status[s] = "running" => cid[s] # NoContainer
        /\ launch[s] \in {"made", "swapped"} => reply[s] # NoContainer

\* Container ids lead back to the launch they were made for.
LinkInv ==
    /\ \A s \in Sites : /\ cid[s] # NoContainer => origin[cid[s]] = s
                        /\ reply[s] # NoContainer => origin[reply[s]] = s
    /\ \A c \in Containers : origin[c] # NoSite => status[origin[c]] # "none"
    /\ \A c \in up \cup watchdog.todo : origin[c] # NoSite
    /\ \A r \in removals : origin[r.c] # NoSite

USE NullsAssumption

\* What the watchdog's loop leaves behind, whatever rows it is given.
LEMMA ScanType ==
    ASSUME TypeOK, NEW st \in [Sites -> Status], NEW hd \in SUBSET Sites,
           NEW en \in SUBSET Sites, NEW rest \in SUBSET Removal, Scan(st, hd, en, rest)
    PROVE  /\ status' \in [Sites -> Status]
           /\ \A s \in Sites : status'[s] = "running" => st[s] = "running"
           /\ held' \subseteq hd /\ ended' \subseteq Sites
           /\ removals' \subseteq Removal
           /\ watchdog' \in [phase: {"idle", "listed", "waiting"},
                             todo: SUBSET Containers, live: SUBSET Containers]
<1> USE DEF TypeOK, Status
<1>1. ASSUME NEW c \in Containers PROVE Verdict(c, st, hd) \subseteq Removal
  BY DEF Verdict, Request, Removal
<1>2. CASE \E c \in Doomed(watchdog.todo, st, hd),
              fine \in SUBSET (watchdog.todo \ Doomed(watchdog.todo, st, hd)) :
            /\ watchdog' = [watchdog EXCEPT !.phase = "waiting",
                                            !.todo = @ \ ({c} \cup fine)]
            /\ removals' = rest \cup Verdict(c, st, hd)
            /\ status' = st /\ held' = hd /\ ended' = en
  <2>1. PICK c \in Doomed(watchdog.todo, st, hd),
             fine \in SUBSET (watchdog.todo \ Doomed(watchdog.todo, st, hd)) :
            /\ watchdog' = [watchdog EXCEPT !.phase = "waiting",
                                            !.todo = @ \ ({c} \cup fine)]
            /\ removals' = rest \cup Verdict(c, st, hd)
            /\ status' = st /\ held' = hd /\ ended' = en
    BY <1>2
  <2>2. c \in Containers
    BY DEF Doomed
  <2>3. removals' \subseteq Removal
    BY <1>1, <2>1, <2>2
  <2>4. watchdog' \in [phase: {"idle", "listed", "waiting"},
                       todo: SUBSET Containers, live: SUBSET Containers]
    BY <2>1
  <2> QED BY <2>1, <2>3, <2>4
<1>3. CASE /\ watchdog' = Idle
           /\ removals' = rest
           /\ status' = [s \in Sites |-> IF s \in Missing(st, watchdog.live)
                                         THEN "expired" ELSE st[s]]
           /\ held' = hd \ Missing(st, watchdog.live)
           /\ ended' = en \cup Missing(st, watchdog.live)
  <2>1. Missing(st, watchdog.live) \subseteq Sites
    BY DEF Missing
  <2> QED BY <1>3, <2>1 DEF Idle
<1> QED BY <1>2, <1>3 DEF Scan

\* Every variable keeps its type, and a running row always has a container id:
\* that is what lets every clean-up address the container it finds in the row.
THEOREM TypeCorrect == Spec => [](TypeOK /\ Located)
<1> USE DEF TypeOK, Located, Status, Phase, rows, docker, clocks, launches
<1>1. Init => TypeOK /\ Located
  BY BoundsAssumption DEF Init, Idle
<1>2. TypeOK /\ Located /\ [Next]_vars => TypeOK' /\ Located'
  <2> SUFFICES ASSUME TypeOK, Located, [Next]_vars PROVE TypeOK' /\ Located'
    OBVIOUS
  <2>1. ASSUME NEW s \in Sites, NEW n \in Names, Reserve(s, n) PROVE TypeOK' /\ Located'
    BY <2>1 DEF Reserve
  <2>2. ASSUME NEW s \in Sites, DeleteSite(s) PROVE TypeOK' /\ Located'
    BY <2>2 DEF DeleteSite, Expire, InTable, Request, Removal
  <2>3. ASSUME NEW s \in Sites, ExtendSite(s) PROVE TypeOK' /\ Located'
    BY <2>3 DEF ExtendSite
  <2>4. ASSUME NEW S \in Scopes, ClearFinished(S) PROVE TypeOK' /\ Located'
    BY <2>4, ScopesAssumption DEF ClearFinished
  <2>5. ASSUME NEW c \in up, ForceRemove(c) \/ StaleSelect(c) PROVE TypeOK' /\ Located'
    BY <2>5 DEF ForceRemove, StaleSelect, Request, Removal
  <2>6. ASSUME NEW s \in Sites, LaunchStep(s) PROVE TypeOK' /\ Located'
    <3>1. CASE LaunchDone(s)
      BY <3>1 DEF LaunchDone
    <3>2. CASE LaunchFails(s)
      BY <3>2 DEF LaunchFails, Settle
    <3>3. CASE UpgradeStarts(s)
      BY <3>3 DEF UpgradeStarts
    <3>4. CASE UpgradeDone(s) \/ UpgradeFails(s)
      BY <3>4 DEF UpgradeDone, UpgradeFails, Settle
    <3>5. CASE Accept(s) \/ TearForUpgrade(s)
      BY <3>5 DEF Accept, TearForUpgrade
    <3>6. ASSUME NEW c \in Containers, CreateContainer(s, c) \/ Recreate(s, c)
          PROVE  TypeOK' /\ Located'
      BY <3>6 DEF CreateContainer, Recreate, Make, Settle
    <3> QED BY <2>6, <3>1, <3>2, <3>3, <3>4, <3>5, <3>6 DEF LaunchStep
  <2>7. ASSUME NEW r \in removals, RemovalStep(r) PROVE TypeOK' /\ Located'
    <3>1. CASE RemoveContainer(r)
      BY <3>1 DEF RemoveContainer, Removal
    <3>2. CASE RemovalFails(r)
      BY <3>2 DEF RemovalFails
    <3>3. CASE CronExpires(r)
      BY <3>3 DEF CronExpires, Expire, InTable, Removal
    <3>4. CASE ForceRemoved(r)
      BY <3>4 DEF ForceRemoved, InTable
    <3>5. CASE StaleExpires(r)
      BY <3>5 DEF StaleExpires
    <3>6. CASE WatchdogResumes(r)
      <4> DEFINE hit == {s \in Sites : s = r.site /\ r.phase = "done" /\ InTable(s)}
                 st == [s \in Sites |-> IF s \in hit THEN "expired" ELSE status[s]]
      <4>1. /\ st \in [Sites -> Status] /\ held \ hit \in SUBSET Sites
            /\ ended \cup hit \in SUBSET Sites /\ removals \ {r} \in SUBSET Removal
        OBVIOUS
      <4>2. Scan(st, held \ hit, ended \cup hit, removals \ {r})
        BY <3>6 DEF WatchdogResumes
      <4>3. UNCHANGED <<slug, cid, docker, clocks, launches, restarts>>
        BY <3>6 DEF WatchdogResumes
      <4>4. \A s \in Sites : st[s] = "running" => status[s] = "running"
        OBVIOUS
      <4> HIDE DEF st, hit, TypeOK, Located, Status
      <4>5. /\ status' \in [Sites -> Status]
            /\ \A s \in Sites : status'[s] = "running" => st[s] = "running"
            /\ held' \subseteq Sites /\ ended' \subseteq Sites /\ removals' \subseteq Removal
            /\ watchdog' \in [phase: {"idle", "listed", "waiting"},
                              todo: SUBSET Containers, live: SUBSET Containers]
        BY <4>1, <4>2, ScanType
      <4> QED BY <4>3, <4>4, <4>5 DEF TypeOK, Located
    <3> QED BY <2>7, <3>1, <3>2, <3>3, <3>4, <3>5, <3>6 DEF RemovalStep
  <2>8. CASE CronSelect
    <3>1. \A s \in Sites : status[s] = "running" => Request("cron", s, cid[s]) \in Removal
      BY DEF Request, Removal
    <3>2. removals' \subseteq Removal
      BY <2>8, <3>1 DEF CronSelect
    <3> QED BY <2>8, <3>2 DEF CronSelect
  <2>9. CASE WatchdogLists
    BY <2>9 DEF WatchdogLists
  <2>10. CASE WatchdogStarts
    <3>1. /\ Scan(status, held, ended, removals)
          /\ UNCHANGED <<slug, cid, docker, clocks, launches, restarts>>
      BY <2>10 DEF WatchdogStarts
    <3>2. /\ status' \in [Sites -> Status]
          /\ \A s \in Sites : status'[s] = "running" => status[s] = "running"
          /\ held' \subseteq Sites /\ ended' \subseteq Sites /\ removals' \subseteq Removal
          /\ watchdog' \in [phase: {"idle", "listed", "waiting"},
                            todo: SUBSET Containers, live: SUBSET Containers]
      <4>1. /\ status \in [Sites -> Status] /\ held \in SUBSET Sites
            /\ ended \in SUBSET Sites /\ removals \in SUBSET Removal
        OBVIOUS
      <4> HIDE DEF TypeOK, Located, Status
      <4> QED BY <3>1, <4>1, ScanType
    <3> QED BY <3>1, <3>2
  <2>11. ASSUME NEW s \in Sites, LabelLapses(s) \/ ExpiryPasses(s) \/ DayPasses(s)
         PROVE  TypeOK' /\ Located'
    BY <2>11 DEF LabelLapses, ExpiryPasses, DayPasses
  <2>12. CASE Restart
    <3>1. removals' \subseteq Removal
      <4>1. ASSUME NEW r \in removals
            PROVE  Request("nobody", NoSite, r.c) \in Removal
        BY DEF Removal, Request
      <4> HIDE DEF TypeOK, Located
      <4> QED BY <2>12, <4>1 DEF Restart
    <3>2. restarts' \in 0..MaxRestarts
      <4>1. restarts \in 0..MaxRestarts
        OBVIOUS
      <4>2. restarts < MaxRestarts /\ restarts' = restarts + 1
        BY <2>12 DEF Restart
      <4> HIDE DEF TypeOK, Located
      <4> QED BY <4>1, <4>2, BoundsAssumption
    <3> QED BY <2>12, <3>1, <3>2 DEF Restart, Idle
  <2>13. CASE UNCHANGED vars
    BY <2>13 DEF vars
  <2> HIDE DEF TypeOK, Located
  <2> QED BY <2>1, <2>2, <2>3, <2>4, <2>5, <2>6, <2>7, <2>8, <2>9, <2>10, <2>11, <2>12, <2>13
          DEF Next, UserStep
<1> QED BY <1>1, <1>2, PTL DEF Spec

----------------------------------------------------------------------------
(* How one step moves the rows, reservations apart.                        *)

\* The status column moves only along these edges.
StatusMoves(s) ==
    \/ status'[s] = status[s]
    \/ status'[s] = "expired" /\ InTable(s) /\ s \in ended'
    \/ status'[s] = "running" /\ launch[s] = "made" /\ status[s] # "gone"
    \/ status'[s] = "error" /\ launch[s] # "idle" /\ launch'[s] = "idle" /\ s \notin held'
                            /\ status[s] # "gone"
    \/ status'[s] = "gone" /\ Finished(s) /\ s \notin held'

RowStep ==
    /\ slug' = slug /\ held' \subseteq held /\ ended \subseteq ended'
    /\ \A s \in Sites :
        /\ StatusMoves(s)
        /\ s \in held \ held' => s \in ended' \/ status'[s] \in {"error", "gone"}
        /\ s \in ended' \ ended => InTable(s) /\ status'[s] = "expired"
        /\ launch[s] = "idle" => launch'[s] = "idle"

\* The rows the watchdog's loop is given are at most an expiry away from the table.
LEMMA ScanRowStep ==
    ASSUME TypeOK, NEW hit \in SUBSET Sites, NEW rest, \A s \in hit : InTable(s),
           Scan([s \in Sites |-> IF s \in hit THEN "expired" ELSE status[s]],
                held \ hit, ended \cup hit, rest),
           slug' = slug, launch' = launch
    PROVE  RowStep
<1> DEFINE st == [s \in Sites |-> IF s \in hit THEN "expired" ELSE status[s]]
<1>1. \/ status' = st /\ held' = held \ hit /\ ended' = ended \cup hit
      \/ /\ status' = [s \in Sites |-> IF s \in Missing(st, watchdog.live)
                                       THEN "expired" ELSE st[s]]
         /\ held' = (held \ hit) \ Missing(st, watchdog.live)
         /\ ended' = (ended \cup hit) \cup Missing(st, watchdog.live)
  BY DEF Scan
<1>2. \A s \in Missing(st, watchdog.live) : s \in Sites /\ s \notin hit /\ status[s] = "running"
  BY DEF Missing
<1>3. \A s \in Sites : s \in Missing(st, watchdog.live) => InTable(s)
  BY <1>2 DEF InTable
<1> QED BY <1>1, <1>2, <1>3 DEF RowStep, StatusMoves, TypeOK

LEMMA RowSteps ==
    ASSUME TypeOK, RowInv, [Next]_vars
    PROVE  RowStep \/ \E s \in Sites, n \in Names : Reserve(s, n)
<1> USE DEF RowStep, StatusMoves, TypeOK, rows, docker, clocks, launches, InTable, Finished
<1>1. ASSUME NEW s \in Sites, DeleteSite(s) \/ ExtendSite(s) PROVE RowStep
  BY <1>1 DEF DeleteSite, ExtendSite, Expire
<1>2. ASSUME NEW S \in Scopes, ClearFinished(S) PROVE RowStep
  BY <1>2 DEF ClearFinished
<1>3. ASSUME NEW c \in up, ForceRemove(c) \/ StaleSelect(c) PROVE RowStep
  BY <1>3 DEF ForceRemove, StaleSelect
<1>4. ASSUME NEW s \in Sites, LaunchStep(s) PROVE RowStep
  <2>1. CASE LaunchDone(s)
    BY <2>1 DEF LaunchDone
  <2>2. CASE LaunchFails(s)
    BY <2>2 DEF LaunchFails, Settle
  <2>3. CASE UpgradeStarts(s)
    BY <2>3 DEF UpgradeStarts
  <2>4. CASE UpgradeDone(s) \/ UpgradeFails(s)
    BY <2>4 DEF UpgradeDone, UpgradeFails, Settle
  <2>5. CASE Accept(s) \/ TearForUpgrade(s)
    BY <2>5 DEF Accept, TearForUpgrade
  <2>6. ASSUME NEW c \in Containers, CreateContainer(s, c) \/ Recreate(s, c) PROVE RowStep
    BY <2>6 DEF CreateContainer, Recreate, Make, Settle
  <2> QED BY <1>4, <2>1, <2>2, <2>3, <2>4, <2>5, <2>6 DEF LaunchStep
<1>5. ASSUME NEW r \in removals, RemovalStep(r) PROVE RowStep
  <2>1. CASE RemoveContainer(r) \/ RemovalFails(r)
    BY <2>1 DEF RemoveContainer, RemovalFails
  <2>2. CASE CronExpires(r)
    BY <2>2 DEF CronExpires, Expire, RowInv
  <2>3. CASE ForceRemoved(r)
    BY <2>3 DEF ForceRemoved
  <2>4. CASE StaleExpires(r)
    BY <2>4 DEF StaleExpires, RowInv
  <2>5. CASE WatchdogResumes(r)
    <3> DEFINE hit == {s \in Sites : s = r.site /\ r.phase = "done" /\ InTable(s)}
    <3>1. hit \in SUBSET Sites /\ \A s \in hit : InTable(s)
      OBVIOUS
    <3>2. /\ Scan([s \in Sites |-> IF s \in hit THEN "expired" ELSE status[s]],
                  held \ hit, ended \cup hit, removals \ {r})
          /\ slug' = slug /\ launch' = launch
      BY <2>5 DEF WatchdogResumes
    <3> HIDE DEF hit, RowStep, TypeOK, InTable
    <3> QED BY <3>1, <3>2, ScanRowStep
  <2> QED BY <1>5, <2>1, <2>2, <2>3, <2>4, <2>5 DEF RemovalStep
<1>6. CASE CronSelect \/ WatchdogLists
  BY <1>6 DEF CronSelect, WatchdogLists
<1>7. CASE WatchdogStarts
  <2> DEFINE hit == {s \in Sites : FALSE}
  <2>1. hit \in SUBSET Sites /\ \A s \in hit : InTable(s)
    OBVIOUS
  <2>2. /\ status = [s \in Sites |-> IF s \in hit THEN "expired" ELSE status[s]]
        /\ held = held \ hit /\ ended = ended \cup hit
    OBVIOUS
  <2> HIDE DEF hit, RowStep, TypeOK, InTable
  <2>3. /\ Scan([s \in Sites |-> IF s \in hit THEN "expired" ELSE status[s]],
                held \ hit, ended \cup hit, removals)
        /\ slug' = slug /\ launch' = launch
    BY <1>7, <2>2 DEF WatchdogStarts
  <2> QED BY <2>1, <2>3, ScanRowStep
<1>8. ASSUME NEW s \in Sites, LabelLapses(s) \/ ExpiryPasses(s) \/ DayPasses(s) PROVE RowStep
  BY <1>8 DEF LabelLapses, ExpiryPasses, DayPasses
<1>9. CASE Restart
  BY <1>9 DEF Restart
<1>10. CASE UNCHANGED vars
  BY <1>10 DEF vars
<1> HIDE DEF RowStep
<1> QED BY <1>1, <1>2, <1>3, <1>4, <1>5, <1>6, <1>7, <1>8, <1>9, <1>10 DEF Next, UserStep

\* The columns of a row and its launch stay in step.
LEMMA RowsCorrect == Spec => []RowInv
<1>1. Init => RowInv
  BY DEF Init, RowInv
<1>2. TypeOK /\ RowInv /\ [Next]_vars => RowInv'
  <2> SUFFICES ASSUME TypeOK, RowInv, [Next]_vars PROVE RowInv'
    OBVIOUS
  <2>1. CASE RowStep
    BY <2>1 DEF RowStep, StatusMoves, RowInv, TypeOK, Status, InTable, Finished
  <2>2. ASSUME NEW s \in Sites, NEW n \in Names, Reserve(s, n) PROVE RowInv'
    BY <2>2 DEF Reserve, RowInv, TypeOK
  <2> QED BY <2>1, <2>2, RowSteps
<1> QED BY <1>1, <1>2, TypeCorrect, PTL DEF Spec

\* No two rows hold the same subdomain.
LEMMA NamesCorrect == Spec => []NameInv
<1>1. Init => NameInv
  BY DEF Init, NameInv
<1>2. TypeOK /\ RowInv /\ NameInv /\ [Next]_vars => NameInv'
  <2> SUFFICES ASSUME TypeOK, RowInv, NameInv, [Next]_vars PROVE NameInv'
    OBVIOUS
  <2>1. CASE RowStep
    BY <2>1 DEF RowStep, NameInv
  <2>2. ASSUME NEW s \in Sites, NEW n \in Names, Reserve(s, n) PROVE NameInv'
    BY <2>2 DEF Reserve, NameFree, NameInv, TypeOK
  <2> QED BY <2>1, <2>2, RowSteps
<1> QED BY <1>1, <1>2, TypeCorrect, RowsCorrect, PTL DEF Spec

----------------------------------------------------------------------------
(* Containers and the requests to remove them lead back to their launch.   *)

\* The watchdog's loop asks for the removal of containers of its list only, and
\* of one whose row still is live only by the label rule.
LEMMA ScanLink ==
    ASSUME TypeOK, RowInv, LinkInv,
           NEW hit \in SUBSET Sites, NEW rest \in SUBSET removals,
           Scan([s \in Sites |-> IF s \in hit THEN "expired" ELSE status[s]],
                held \ hit, ended \cup hit, rest)
    PROVE  /\ watchdog'.todo \subseteq watchdog.todo
           /\ \A q \in removals' : q \in rest \/ origin[q.c] # NoSite
           /\ \A q \in removals' : q \in rest \/ q.by = "lapsed"
                                   \/ Finished(origin[q.c]) \/ origin[q.c] \in ended'
<1> DEFINE st == [s \in Sites |-> IF s \in hit THEN "expired" ELSE status[s]]
           hd == held \ hit
<1>1. CASE \E c \in Doomed(watchdog.todo, st, hd),
              fine \in SUBSET (watchdog.todo \ Doomed(watchdog.todo, st, hd)) :
            /\ watchdog' = [watchdog EXCEPT !.phase = "waiting",
                                            !.todo = @ \ ({c} \cup fine)]
            /\ removals' = rest \cup Verdict(c, st, hd)
            /\ status' = st /\ held' = hd /\ ended' = ended \cup hit
  <2>1. PICK c \in Doomed(watchdog.todo, st, hd),
             fine \in SUBSET (watchdog.todo \ Doomed(watchdog.todo, st, hd)) :
            /\ watchdog' = [watchdog EXCEPT !.phase = "waiting",
                                            !.todo = @ \ ({c} \cup fine)]
            /\ removals' = rest \cup Verdict(c, st, hd)
            /\ ended' = ended \cup hit
    BY <1>1
  <2>2. c \in watchdog.todo /\ c \in Containers /\ origin[c] \in Sites
    BY DEF Doomed, TypeOK, LinkInv
  <2>3. watchdog'.todo \subseteq watchdog.todo
    BY <2>1 DEF TypeOK
  <2>4. \A q \in Verdict(c, st, hd) :
            q.c = c /\ (q.by = "lapsed" \/ Orphaned(c, st, hd))
    BY DEF Verdict, Request
  <2>5. Orphaned(c, st, hd) => Finished(origin[c]) \/ origin[c] \in ended'
    <3>1. SUFFICES ASSUME \A s \in hd : slug[s] = Label(c) => st[s] = "expired",
                          origin[c] \notin ended'
                   PROVE  Finished(origin[c])
      BY DEF Orphaned
    <3>2. origin[c] \notin ended /\ origin[c] \notin hit
      BY <2>1, <3>1
    <3>3. origin[c] \in hd => status[origin[c]] = "expired"
      BY <2>2, <3>1, <3>2 DEF Label
    <3>4. status[origin[c]] # "none" /\ status[origin[c]] \in Status
      BY <2>2 DEF LinkInv, TypeOK
    <3> QED BY <2>2, <3>2, <3>3, <3>4 DEF RowInv, Finished, Status
  <2>6. \A q \in removals' : q \in rest \/ q \in Verdict(c, st, hd)
    BY <2>1
  <2> HIDE DEF Verdict, Orphaned, st, hd, Finished
  <2> QED BY <2>2, <2>3, <2>4, <2>5, <2>6
<1>2. CASE watchdog' = Idle /\ removals' = rest
  BY <1>2 DEF Idle
<1> HIDE DEF Finished, LinkInv, RowInv
<1> QED BY <1>1, <1>2 DEF Scan

\* The origin of a container is written once, and every link leads to a row.
LEMMA LinkCorrect == Spec => []LinkInv
<1> USE DEF LinkInv, rows, docker, clocks, launches
<1>1. Init => LinkInv
  BY DEF Init, Idle
<1>2. TypeOK /\ Located /\ RowInv /\ LinkInv /\ [Next]_vars => LinkInv'
  <2> SUFFICES ASSUME TypeOK, Located, RowInv, LinkInv, [Next]_vars PROVE LinkInv'
    OBVIOUS
  <2> USE DEF TypeOK
  <2>1. ASSUME NEW s \in Sites, NEW n \in Names, Reserve(s, n) PROVE LinkInv'
    BY <2>1 DEF Reserve
  <2>2. ASSUME NEW s \in Sites, DeleteSite(s) PROVE LinkInv'
    BY <2>2 DEF DeleteSite, Expire, InTable, Request
  <2>3. ASSUME NEW s \in Sites, ExtendSite(s) PROVE LinkInv'
    BY <2>3 DEF ExtendSite
  <2>4. ASSUME NEW S \in Scopes, ClearFinished(S) PROVE LinkInv'
    BY <2>4 DEF ClearFinished
  <2>5. ASSUME NEW c \in up, ForceRemove(c) \/ StaleSelect(c) PROVE LinkInv'
    BY <2>5 DEF ForceRemove, StaleSelect, Request
  <2>6. ASSUME NEW s \in Sites, LaunchStep(s) PROVE LinkInv'
    <3>1. CASE LaunchDone(s)
      BY <3>1 DEF LaunchDone
    <3>2. CASE LaunchFails(s)
      BY <3>2 DEF LaunchFails, Settle
    <3>3. CASE UpgradeStarts(s)
      BY <3>3 DEF UpgradeStarts
    <3>4. CASE UpgradeDone(s) \/ UpgradeFails(s)
      BY <3>4 DEF UpgradeDone, UpgradeFails, Settle
    <3>5. CASE Accept(s) \/ TearForUpgrade(s)
      BY <3>5 DEF Accept, TearForUpgrade
    <3>6. ASSUME NEW c \in Containers, CreateContainer(s, c) \/ Recreate(s, c) PROVE LinkInv'
      <4>1. status[s] # "none" /\ origin[c] = NoSite
        BY <3>6 DEF CreateContainer, Recreate, Make, RowInv
      <4>2. /\ origin' = [origin EXCEPT ![c] = s] /\ up' = up \cup {c}
            /\ status' = status /\ cid' = cid /\ removals' = removals /\ watchdog' = watchdog
        BY <3>6 DEF CreateContainer, Recreate, Make
      <4>3. reply' = [reply EXCEPT ![s] = c] \/ reply' = [reply EXCEPT ![s] = NoContainer]
        BY <3>6 DEF CreateContainer, Recreate, Make, Settle
      <4>4. \A d \in Containers : origin'[d] = IF d = c THEN s ELSE origin[d]
        BY <4>2
      <4>5. \A r \in removals : r.c \in Containers
        BY DEF Removal
      <4> QED BY <4>1, <4>2, <4>3, <4>4, <4>5
    <3> QED BY <2>6, <3>1, <3>2, <3>3, <3>4, <3>5, <3>6 DEF LaunchStep
  <2>7. ASSUME NEW r \in removals, RemovalStep(r) PROVE LinkInv'
    <3>1. CASE RemoveContainer(r)
      BY <3>1 DEF RemoveContainer, Removal
    <3>2. CASE RemovalFails(r)
      BY <3>2 DEF RemovalFails
    <3>3. CASE CronExpires(r)
      BY <3>3 DEF CronExpires, Expire, InTable
    <3>4. CASE ForceRemoved(r)
      BY <3>4 DEF ForceRemoved, InTable
    <3>5. CASE StaleExpires(r)
      BY <3>5 DEF StaleExpires
    <3>6. CASE WatchdogResumes(r)
      <4> DEFINE hit == {s \in Sites : s = r.site /\ r.phase = "done" /\ InTable(s)}
      <4>1. /\ Scan([s \in Sites |-> IF s \in hit THEN "expired" ELSE status[s]],
                    held \ hit, ended \cup hit, removals \ {r})
            /\ UNCHANGED <<slug, cid, docker, clocks, launches, restarts>>
        BY <3>6 DEF WatchdogResumes
      <4>2. hit \in SUBSET Sites /\ removals \ {r} \in SUBSET removals
        OBVIOUS
      <4> HIDE DEF hit, TypeOK, LinkInv
      <4>3. /\ watchdog'.todo \subseteq watchdog.todo
            /\ \A q \in removals' : q \in removals \ {r} \/ origin[q.c] # NoSite
        BY <4>1, <4>2, ScanLink
      <4>4. \A s \in Sites : status[s] # "none" => status'[s] # "none"
        BY <4>1 DEF Scan, TypeOK
      <4> QED BY <4>1, <4>3, <4>4 DEF TypeOK, LinkInv
    <3> QED BY <2>7, <3>1, <3>2, <3>3, <3>4, <3>5, <3>6 DEF RemovalStep
  <2>8. CASE CronSelect
    BY <2>8 DEF CronSelect, Request, Located
  <2>9. CASE WatchdogLists
    BY <2>9 DEF WatchdogLists
  <2>10. CASE WatchdogStarts
    <3> DEFINE hit == {s \in Sites : FALSE}
    <3>1. /\ Scan(status, held, ended, removals)
          /\ UNCHANGED <<slug, cid, docker, clocks, launches, restarts>>
      BY <2>10 DEF WatchdogStarts
    <3>2. /\ status = [s \in Sites |-> IF s \in hit THEN "expired" ELSE status[s]]
          /\ held = held \ hit /\ ended = ended \cup hit
          /\ hit \in SUBSET Sites /\ removals \in SUBSET removals
      OBVIOUS
    <3> HIDE DEF hit, TypeOK, LinkInv
    <3>3. Scan([s \in Sites |-> IF s \in hit THEN "expired" ELSE status[s]],
               held \ hit, ended \cup hit, removals)
      BY <3>1, <3>2
    <3>4. /\ watchdog'.todo \subseteq watchdog.todo
          /\ \A q \in removals' : q \in removals \/ origin[q.c] # NoSite
      BY <3>2, <3>3, ScanLink
    <3>5. \A s \in Sites : status[s] # "none" => status'[s] # "none"
      BY <3>1 DEF Scan, TypeOK
    <3> QED BY <3>1, <3>4, <3>5 DEF TypeOK, LinkInv
  <2>11. ASSUME NEW s \in Sites, LabelLapses(s) \/ ExpiryPasses(s) \/ DayPasses(s)
         PROVE  LinkInv'
    BY <2>11 DEF LabelLapses, ExpiryPasses, DayPasses
  <2>12. CASE Restart
    BY <2>12 DEF Restart, Request, Idle
  <2>13. CASE UNCHANGED vars
    BY <2>13 DEF vars
  <2> HIDE DEF TypeOK, LinkInv
  <2> QED BY <2>1, <2>2, <2>3, <2>4, <2>5, <2>6, <2>7, <2>8, <2>9, <2>10, <2>11, <2>12, <2>13
          DEF Next, UserStep
<1> HIDE DEF LinkInv
<1> QED BY <1>1, <1>2, TypeCorrect, RowsCorrect, PTL DEF Spec

\* No row ever points at a container of another launch, and a running row points
\* at one, whatever order upgrades, late answers and reused subdomains come in.
THEOREM ContainersOwned == Spec => []RowsOwnTheirContainers
<1>1. Located /\ LinkInv => RowsOwnTheirContainers
  BY DEF Located, LinkInv, RowsOwnTheirContainers
<1> QED BY <1>1, TypeCorrect, LinkCorrect, PTL

----------------------------------------------------------------------------
(* No live site is torn down.                                              *)

\* A container belongs to one launch for good.
LEMMA OriginKept ==
    ASSUME TypeOK, [Next]_vars, NEW c \in Containers, origin[c] # NoSite
    PROVE  origin'[c] = origin[c]
<1>1. origin' = origin \/ \E s \in Sites, d \in Containers : Make(s, d, "made") \/ Make(s, d, "swapped")
  BY DEF Next, UserStep, LaunchStep, RemovalStep, Reserve, DeleteSite, ExtendSite, ClearFinished,
         ForceRemove, StaleSelect, LaunchDone, LaunchFails, UpgradeStarts, UpgradeDone,
         UpgradeFails, Accept, TearForUpgrade, CreateContainer, Recreate, RemoveContainer,
         RemovalFails, CronExpires, ForceRemoved, StaleExpires, WatchdogResumes, CronSelect,
         WatchdogLists, WatchdogStarts, LabelLapses, ExpiryPasses, DayPasses, Restart,
         vars, rows, docker, clocks, launches
<1> QED BY <1>1 DEF Make, TypeOK

\* A row that is finished, or that a clean-up has seen, is so for good.
LEMMA EndedKept ==
    ASSUME TypeOK, RowInv, [Next]_vars, NEW s \in Sites, Finished(s) \/ s \in ended
    PROVE  Finished(s)' \/ s \in ended'
<1>1. CASE RowStep
  BY <1>1 DEF RowStep, StatusMoves, RowInv, TypeOK, Status, Finished
<1>2. ASSUME NEW t \in Sites, NEW n \in Names, Reserve(t, n) PROVE Finished(s)' \/ s \in ended'
  BY <1>2 DEF Reserve, Finished, TypeOK
<1> QED BY <1>1, <1>2, RowSteps

\* A teardown or an orphan removal under way was so before, or its row has ended.
NewRequests ==
    \A q \in removals' : q.by \in {"teardown", "orphan"} =>
        \/ \E r \in removals : r.by = q.by /\ r.c = q.c
        \/ origin[q.c] # NoSite /\ (Finished(origin[q.c]) \/ origin[q.c] \in ended')

LEMMA RequestSteps ==
    ASSUME TypeOK, Located, RowInv, LinkInv, [Next]_vars
    PROVE  NewRequests
<1> USE DEF NewRequests, Removal, Request
<1>1. ASSUME removals' \subseteq removals PROVE NewRequests
  BY <1>1
<1>2. ASSUME NEW s \in Sites, DeleteSite(s) PROVE NewRequests
  <2>1. CASE cid[s] = NoContainer
    BY <1>1, <1>2, <2>1 DEF DeleteSite
  <2>2. CASE cid[s] # NoContainer
    <3>1. origin[cid[s]] = s /\ s \in ended'
      BY <1>2, <2>2 DEF LinkInv, DeleteSite, Expire
    <3>2. removals' = removals \cup {Request("teardown", NoSite, cid[s])}
      BY <1>2, <2>2 DEF DeleteSite
    <3> QED BY <3>1, <3>2
  <2> QED BY <2>1, <2>2
<1>3. ASSUME NEW c \in up, ForceRemove(c) \/ StaleSelect(c) PROVE NewRequests
  BY <1>3 DEF ForceRemove, StaleSelect
<1>4. ASSUME NEW r \in removals, RemovalStep(r) PROVE NewRequests
  <2>1. CASE RemoveContainer(r)
    BY <2>1 DEF RemoveContainer, TypeOK
  <2>2. CASE RemovalFails(r) \/ CronExpires(r) \/ ForceRemoved(r) \/ StaleExpires(r)
    BY <1>1, <2>2 DEF RemovalFails, CronExpires, ForceRemoved, StaleExpires
  <2>3. CASE WatchdogResumes(r)
    <3> DEFINE hit == {s \in Sites : s = r.site /\ r.phase = "done" /\ InTable(s)}
    <3>1. Scan([s \in Sites |-> IF s \in hit THEN "expired" ELSE status[s]],
               held \ hit, ended \cup hit, removals \ {r})
      BY <2>3 DEF WatchdogResumes
    <3>2. hit \in SUBSET Sites /\ removals \ {r} \in SUBSET removals
      OBVIOUS
    <3> HIDE DEF hit, Removal, Request
    <3>3. /\ \A q \in removals' : q \in removals \ {r} \/ origin[q.c] # NoSite
          /\ \A q \in removals' : q \in removals \ {r} \/ q.by = "lapsed"
                                  \/ Finished(origin[q.c]) \/ origin[q.c] \in ended'
      BY <3>1, <3>2, ScanLink
    <3> QED BY <3>3
  <2> QED BY <1>4, <2>1, <2>2, <2>3 DEF RemovalStep
<1>5. CASE WatchdogStarts
  <2> DEFINE hit == {s \in Sites : FALSE}
  <2>1. /\ status = [s \in Sites |-> IF s \in hit THEN "expired" ELSE status[s]]
        /\ held = held \ hit /\ ended = ended \cup hit
        /\ hit \in SUBSET Sites /\ removals \in SUBSET removals
    BY DEF TypeOK
  <2> HIDE DEF hit, Removal, Request
  <2>2. Scan([s \in Sites |-> IF s \in hit THEN "expired" ELSE status[s]],
             held \ hit, ended \cup hit, removals)
    BY <1>5, <2>1 DEF WatchdogStarts
  <2>3. /\ \A q \in removals' : q \in removals \/ origin[q.c] # NoSite
        /\ \A q \in removals' : q \in removals \/ q.by = "lapsed"
                                \/ Finished(origin[q.c]) \/ origin[q.c] \in ended'
    BY <2>1, <2>2, ScanLink
  <2> QED BY <2>3
<1>6. CASE CronSelect
  BY <1>6 DEF CronSelect
<1>7. CASE Restart
  BY <1>7 DEF Restart
<1>8. CASE UNCHANGED removals
  BY <1>1, <1>8
<1>9. ASSUME NEW s \in Sites, \/ ExtendSite(s) \/ LaunchStep(s)
                              \/ LabelLapses(s) \/ ExpiryPasses(s) \/ DayPasses(s)
      PROVE  UNCHANGED removals
  BY <1>9 DEF ExtendSite, LaunchStep, LabelLapses, ExpiryPasses, DayPasses, LaunchDone,
      LaunchFails, UpgradeStarts, UpgradeDone, UpgradeFails, Accept, TearForUpgrade,
      CreateContainer, Recreate, Make
<1>10. ASSUME \/ \E s \in Sites, n \in Names : Reserve(s, n)
              \/ \E S \in Scopes : ClearFinished(S)
              \/ WatchdogLists \/ UNCHANGED vars
       PROVE  UNCHANGED removals
  BY <1>10 DEF Reserve, ClearFinished, WatchdogLists, vars
<1> HIDE DEF NewRequests
<1> QED BY <1>2, <1>3, <1>4, <1>5, <1>6, <1>7, <1>8, <1>9, <1>10 DEF Next, UserStep

\* A background teardown or an orphan removal never reaches a container whose
\* launch may still be live: the lookup by subdomain protects a row that is
\* creating, at whatever moment of its launch the watchdog took its list.
THEOREM LiveSitesKept == Spec => []NoLiveSiteTornDown
<1>1. Init => NoLiveSiteTornDown
  BY DEF Init, NoLiveSiteTornDown
<1>2. TypeOK /\ TypeOK' /\ Located /\ RowInv /\ LinkInv /\ NoLiveSiteTornDown /\ [Next]_vars
      => NoLiveSiteTornDown'
  <2> SUFFICES ASSUME TypeOK, TypeOK', Located, RowInv, LinkInv, NoLiveSiteTornDown,
                      [Next]_vars, NEW q \in removals', q.by \in {"teardown", "orphan"}
               PROVE  Finished(origin[q.c])' \/ origin'[q.c] \in ended'
    BY DEF NoLiveSiteTornDown
  <2>1. q.c \in Containers
    BY DEF TypeOK, Removal
  <2>2. /\ origin[q.c] # NoSite
        /\ Finished(origin[q.c]) \/ origin[q.c] \in ended \/ origin[q.c] \in ended'
    <3>1. NewRequests
      BY RequestSteps
    <3> QED BY <3>1 DEF NewRequests, NoLiveSiteTornDown, LinkInv
  <2>3. origin'[q.c] = origin[q.c] /\ origin[q.c] \in Sites
    BY <2>1, <2>2, OriginKept DEF TypeOK
  <2>4. \A s \in Sites : Finished(s) \/ s \in ended => Finished(s)' \/ s \in ended'
    BY EndedKept
  <2> QED BY <2>2, <2>3, <2>4 DEF Finished
<1> QED BY <1>1, <1>2, TypeCorrect, RowsCorrect, LinkCorrect, PTL DEF Spec

----------------------------------------------------------------------------
(* The table implements SiteReservation.                                   *)

Reserved == Active \ ended
Claim == [s \in Sites |-> IF s \in held THEN slug[s] ELSE NoName]
Spent == ended \cup {s \in Sites : Finished(s)}

\* Whatever is not a reservation gives slots back, and subdomains after them.
LEMMA RowStepReleases ==
    ASSUME TypeOK, TypeOK', RowInv, RowStep
    PROVE  Reservation!Release(Reserved \ Reserved', held \ held')
<1> DEFINE S == Reserved \ Reserved'
           F == held \ held'
<1> USE DEF Reserved, Active
<1>1. F \cap (Reserved \ S) = {}
  BY DEF RowStep, TypeOK
<1>2. Reserved' = Reserved \ S
  BY DEF RowStep, StatusMoves, RowInv, TypeOK, Status
<1>3. Spent' = Spent \cup S
  <2>1. ASSUME NEW s \in Sites, s \in Spent \cup S PROVE s \in Spent'
    BY <2>1 DEF Spent, Finished, RowStep, StatusMoves, RowInv, TypeOK, Status
  <2>2. ASSUME NEW s \in Sites, s \in Spent' PROVE s \in Spent \cup S
    BY <2>2 DEF Spent, Finished, InTable, RowStep, StatusMoves, RowInv, TypeOK, Status
  <2>3. Spent \subseteq Sites /\ S \subseteq Sites
    BY DEF Spent, TypeOK
  <2>4. Spent' \subseteq Sites
    BY DEF Spent, TypeOK
  <2> QED BY <2>1, <2>2, <2>3, <2>4
<1>4. Claim' = [s \in Sites |-> IF s \in F THEN NoName ELSE Claim[s]]
  BY DEF Claim, RowStep
<1> QED BY <1>1, <1>2, <1>3, <1>4 DEF Reservation!Release, Spent, Claim

\* A reservation in the table is one of the specification: the limits are
\* tested against at least the rows that count.
LEMMA ReserveReserves ==
    ASSUME TypeOK, RowInv, NEW s \in Sites, NEW n \in Names, Reserve(s, n)
    PROVE  Reservation!Reserve(s, n)
<1>1. s \notin Reserved \cup Spent
  BY DEF Reserve, Reserved, Active, Spent, Finished, RowInv
<1>2. \A t \in Sites : Claim[t] # n
  BY DEF Reserve, NameFree, Claim
<1>3. ASSUME NEW cap \in Caps, s \in cap[1]
      PROVE  Cardinality(Reserved \cap cap[1]) < cap[2]
  <2>1. Cardinality(Active \cap cap[1]) < cap[2] /\ cap[2] \in Nat
    BY <1>3, CapsAssumption DEF Reserve, RoomFor
  <2>2. IsFiniteSet(Active \cap cap[1])
    BY SitesAssumption, FS_Subset DEF Active
  <2>3. /\ Cardinality(Reserved \cap cap[1]) <= Cardinality(Active \cap cap[1])
        /\ Cardinality(Reserved \cap cap[1]) \in Nat /\ Cardinality(Active \cap cap[1]) \in Nat
    BY <2>2, FS_Subset, FS_CardinalityType DEF Reserved
  <2> QED BY <2>1, <2>3
<1>4. Reservation!RoomFor(s)
  <2>1. \A X : Reservation!Cardinality(X) = Cardinality(X)
    BY DEF Reservation!Cardinality, Cardinality
  <2> QED BY <1>3, <2>1 DEF Reservation!RoomFor, Reserved
<1>5. Reserved' = Reserved \cup {s}
  BY DEF Reserve, Reserved, Active, RowInv, TypeOK
<1>6. Claim' = [Claim EXCEPT ![s] = n]
  BY DEF Reserve, Claim, TypeOK
<1>7. Spent' = Spent
  BY DEF Reserve, Spent, Finished, TypeOK
<1> QED BY <1>1, <1>2, <1>4, <1>5, <1>6, <1>7
        DEF Reservation!Reserve, Reserved, Claim, Spent

\* The table, its launches, teardowns, sweeps and restarts implement the
\* reservation of slots and names: limits hold of the rows that never ended,
\* names are exclusive among the rows that hold one, and a slot ends once.
THEOREM TableImplementsReservation == Spec => ImplementsReservation
<1>1. Init => Reservation!Init
  BY DEF Init, Reservation!Init, Active, Finished
<1>2. TypeOK /\ TypeOK' /\ RowInv /\ [Next]_vars => [Reservation!Next]_(Reservation!vars)
  <2> SUFFICES ASSUME TypeOK, TypeOK', RowInv, [Next]_vars PROVE Reservation!Next
    OBVIOUS
  <2>1. CASE RowStep
    <3> DEFINE S == Reserved \ Reserved'
               F == held \ held'
    <3>1. S \in SUBSET Sites /\ F \in SUBSET Sites
      BY DEF Reserved, Active, TypeOK
    <3>2. Reservation!Release(S, F)
      BY <2>1, RowStepReleases
    <3> HIDE DEF S, F
    <3> QED BY <3>1, <3>2 DEF Reservation!Next, Reservation!Release
  <2>2. ASSUME NEW s \in Sites, NEW n \in Names, Reserve(s, n) PROVE Reservation!Next
    BY <2>2, ReserveReserves DEF Reservation!Next
  <2> QED BY <2>1, <2>2, RowSteps
<1> QED BY <1>1, <1>2, TypeCorrect, RowsCorrect, PTL DEF Spec, ImplementsReservation, Reservation!Spec

Promise == INSTANCE SiteReservationProofs WITH
    reserved <- Active \ ended,
    claim <- [s \in Sites |-> IF s \in held THEN slug[s] ELSE NoName],
    spent <- ended \cup {s \in Sites : Finished(s)}

\* The two instances of the promise are the same specification.
LEMMA PromiseKept == Spec => Promise!Spec
<1>1. Reservation!Init => Promise!Init
  BY DEF Reservation!Init, Promise!Init
<1>2. [Reservation!Next]_(Reservation!vars) => [Promise!Next]_(Promise!vars)
  BY DEF Reservation!Next, Reservation!vars, Reservation!Reserve, Reservation!Release,
         Reservation!RoomFor, Reservation!Cardinality,
         Promise!Next, Promise!vars, Promise!Reserve, Promise!Release,
         Promise!RoomFor, Promise!Cardinality
<1> QED BY <1>1, <1>2, TableImplementsReservation, PTL
        DEF ImplementsReservation, Reservation!Spec, Promise!Spec

\* No limit insertSiteTxn enforces is exceeded by rows that never ended.
THEOREM LimitsHold == Spec => []LimitsHeld
<1>1. Promise!WithinCaps => LimitsHeld
  <2>1. \A X : Promise!Cardinality(X) = Cardinality(X)
    BY DEF Promise!Cardinality, Cardinality
  <2> QED BY <2>1 DEF Promise!WithinCaps, LimitsHeld
<1>2. Promise!Spec => []Promise!WithinCaps
  <2>1. Promise!SitesFinite
    BY SitesAssumption DEF Promise!SitesFinite, Promise!IsFiniteSet, IsFiniteSet
  <2>2. Promise!CapsProper
    BY CapsAssumption DEF Promise!CapsProper
  <2> QED BY <2>1, <2>2, Promise!CapsHold, PTL
<1> QED BY <1>1, <1>2, PromiseKept, PTL

\* No subdomain is ever on two rows, and a live row that never ended has one,
\* whatever order deletes, clean-ups, late answers and new launches come in.
THEOREM NamesKept == Spec => []NamesHeld
<1>1. TypeOK /\ RowInv /\ Promise!NamesExclusive => NamesHeld
  <2> SUFFICES ASSUME TypeOK, RowInv, Promise!NamesExclusive PROVE NamesHeld
    OBVIOUS
  <2>1. ASSUME NEW s \in Active \ ended PROVE s \in held
    <3>1. (IF s \in held THEN slug[s] ELSE NoName) # NoName
      BY <2>1 DEF Promise!NamesExclusive, Active
    <3> QED BY <3>1
  <2>2. ASSUME NEW s \in held, NEW t \in held, slug[s] = slug[t] PROVE s = t
    <3>1. s \in Sites /\ t \in Sites /\ slug[s] # NoName
      BY NullsAssumption DEF TypeOK, RowInv
    <3>2. \A x, y \in Sites :
             /\ (IF x \in held THEN slug[x] ELSE NoName) = (IF y \in held THEN slug[y] ELSE NoName)
             /\ (IF x \in held THEN slug[x] ELSE NoName) # NoName
             => x = y
      BY DEF Promise!NamesExclusive
    <3> QED BY <2>2, <3>1, <3>2
  <2> QED BY <2>1, <2>2 DEF NamesHeld
<1>2. Promise!Spec => []Promise!NamesExclusive
  <2>1. Promise!NamesProper
    BY NullsAssumption DEF Promise!NamesProper
  <2> QED BY <2>1, Promise!NamesHold, PTL
<1> QED BY <1>1, <1>2, TypeCorrect, RowsCorrect, PromiseKept, PTL
=============================================================================
