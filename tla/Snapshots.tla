----------------------------- MODULE Snapshots -----------------------------
(***************************************************************************)
(* Snapshots of sites and clones made from them                            *)
(* (services/snapshot.service.ts, and the provisioner's snapshot and       *)
(* restore handlers).  A row is in the database, its archive on disk, and  *)
(* what a site holds in its container; the three are changed at different  *)
(* times.  Of a site's own life only what these operations look at is      *)
(* here: SiteLifecycle has the rest.                                       *)
(***************************************************************************)
EXTENDS FiniteSets, Integers, Sequences, SequencesExt

CONSTANTS
    SnapSites,      \* sites
    CloneSites,     \* those of them that clones are made as; for a bound,
                    \* nothing happens to a clone once it is made
    Calls,          \* requests under way at once
    MaxSnapshots,   \* MAX_SNAPSHOTS_PER_SITE
    MaxDrawn,       \* bound on the snapshots ever begun
    NoSite

ASSUME LimitAssumption == MaxSnapshots \in Nat \ {0} /\ MaxDrawn \in Nat
ASSUME NoSiteAssumption == NoSite \notin SnapSites /\ CloneSites \subseteq SnapSites

Originals == SnapSites \ CloneSites

VARIABLES
    snapSite,       \* [SnapSites -> status of the row]
    kept,           \* [SnapSites -> its rows of snapshots, oldest first]
    archive,        \* snapshots whose archive is on disk
    drawn,          \* snapshot ids drawn so far
    stamped,        \* [SnapSites -> its rows with a restored_at, oldest stamp first]
    content,        \* [Originals -> what wp-content holds]; nobody asks it of a clone
    call,           \* [Calls -> what the request waits for]
    crowded,        \* sites two of whose snapshots were taken at once (history)
    blurred         \* sites whose restores overlapped, broke off or were answered
                    \* with a 404, or whose last restored snapshot was deleted;
                    \* clones, never stamped (history)

snapVars == <<snapSite, kept, archive, drawn, stamped, content, call, crowded, blurred>>

Snaps == 1..MaxDrawn

\* What wp-content holds when it holds no snapshot.
Own == 0
Emptied == -1

\* "take" and "copy" (the take of a clone) wait for the archive, "launch" for
\* the clone's site; then "ask", "cleared" and "put" are the steps of a restore.
Steps == {"idle", "take", "copy", "launch", "ask", "cleared", "put"}
IdleCall == [step |-> "idle", site |-> NoSite, snap |-> 0]

SnapshotsTypeOK ==
    /\ snapSite \in [SnapSites -> {"absent", "running", "expired", "cleared"}]
    /\ kept \in [SnapSites -> Seq(Snaps)]
    /\ archive \subseteq Snaps /\ drawn \in 0..MaxDrawn
    /\ stamped \in [SnapSites -> Seq(Snaps)]
    /\ content \in [Originals -> Snaps \cup {Own, Emptied}]
    /\ call \in [Calls -> [step: Steps, site: SnapSites \cup {NoSite}, snap: 0..MaxDrawn]]
    /\ crowded \subseteq SnapSites /\ blurred \subseteq SnapSites

SnapshotsInit ==
    /\ snapSite = [s \in SnapSites |-> IF s \in CloneSites THEN "absent" ELSE "running"]
    /\ kept = [s \in SnapSites |-> <<>>]
    /\ archive = {} /\ drawn = 0
    /\ stamped = [s \in SnapSites |-> <<>>]
    /\ content = [s \in Originals |-> Own]
    /\ call = [c \in Calls |-> IdleCall]
    /\ crowded = {} /\ blurred = CloneSites

Waits(c, s, steps) == call[c].site = s /\ call[c].step \in steps
SomeCall(s, steps) == \E c \in Calls : Waits(c, s, steps)
Returns(c) == call' = [call EXCEPT ![c] = IdleCall]
Moves(c, step) == call' = [call EXCEPT ![c].step = step]

Taking == {"take", "copy"}
Restoring == {"ask", "cleared", "put"}

FullLate(s) == Len(kept[s]) > MaxSnapshots      \* slip: off by one

Full(s) == Len(kept[s]) >= MaxSnapshots

LastRestored(s, n) == stamped[s] # <<>> /\ Last(stamped[s]) = n

\* n's files go, and its row.
Drop(s, n) ==
    /\ kept' = [kept EXCEPT ![s] = RemoveFirst(@, n)]
    /\ archive' = archive \ {n}
    /\ stamped' = [stamped EXCEPT ![s] = RemoveFirst(@, n)]
    /\ blurred' = IF LastRestored(s, n) THEN blurred \cup {s} ELSE blurred

----------------------------------------------------------------------------
(* Taking and deleting.                                                    *)

\* The oldest snapshot makes room, at once; the archive is then awaited.
TakeSnapshot(c, s, step) ==
    /\ call[c] = IdleCall /\ snapSite[s] = "running" /\ drawn < MaxDrawn
    /\ drawn' = drawn + 1
    /\ \/ Full(s) /\ Drop(s, Head(kept[s]))
       \/ ~Full(s) /\ UNCHANGED <<kept, archive, stamped, blurred>>
    /\ call' = [call EXCEPT ![c] = [step |-> step, site |-> s, snap |-> drawn + 1]]
    /\ crowded' = IF SomeCall(s, Taking) THEN crowded \cup {s} ELSE crowded
    /\ UNCHANGED <<snapSite, content>>

\* The archive is written and the row inserted, unless the site's row is gone:
\* the foreign key refuses it, and the archive stays behind.
SnapshotTaken(c) ==
    LET s == call[c].site  n == call[c].snap IN
    /\ call[c].step \in Taking
    /\ archive' = archive \cup {n}
    /\ \/ /\ snapSite[s] # "cleared"
          /\ kept' = [kept EXCEPT ![s] = Append(@, n)]
          /\ IF call[c].step = "copy" THEN Moves(c, "launch") ELSE Returns(c)
       \/ snapSite[s] = "cleared" /\ Returns(c) /\ UNCHANGED kept
    /\ UNCHANGED <<snapSite, drawn, stamped, content, crowded, blurred>>

TakeFailsLate(c) ==     \* slip: the row is inserted before the archive is there
    /\ call[c].step \in Taking
    /\ kept' = [kept EXCEPT ![call[c].site] = Append(@, call[c].snap)]
    /\ Returns(c)
    /\ UNCHANGED <<snapSite, archive, drawn, stamped, content, crowded, blurred>>

\* The provisioner fails, or its answer is lost: no row, perhaps an archive.  A
\* 404 is no success here: its body lacks db_engine, and the insert is refused.
TakeFails(c) ==
    /\ call[c].step \in Taking
    /\ archive' \in {archive, archive \cup {call[c].snap}}
    /\ Returns(c)
    /\ UNCHANGED <<snapSite, kept, drawn, stamped, content, crowded, blurred>>

\* deleteSnapshot awaits nothing.
DeleteSnapshot(s, n) ==
    /\ n \in Range(kept[s])
    /\ Drop(s, n)
    /\ UNCHANGED <<snapSite, drawn, content, call, crowded>>

----------------------------------------------------------------------------
(* Restoring.                                                              *)

RestoreSnapshot(c, s, n) ==
    /\ call[c] = IdleCall /\ snapSite[s] = "running" /\ n \in Range(kept[s])
    /\ call' = [call EXCEPT ![c] = [step |-> "ask", site |-> s, snap |-> n]]
    /\ blurred' = IF SomeCall(s, Restoring) THEN blurred \cup {s} ELSE blurred
    /\ UNCHANGED <<snapSite, kept, archive, drawn, stamped, content, crowded>>

Holds(s, what) == content' = [x \in Originals |-> IF x = s THEN what ELSE content[x]]

\* The provisioner finds the archive and empties wp-content.
ContentCleared(c) ==
    /\ call[c].step = "ask" /\ call[c].snap \in archive
    /\ Holds(call[c].site, Emptied)
    /\ Moves(c, "cleared")
    /\ UNCHANGED <<snapSite, kept, archive, drawn, stamped, crowded, blurred>>

\* Only now is the archive read.
ContentPut(c) ==
    /\ call[c].step = "cleared" /\ call[c].snap \in archive
    /\ Holds(call[c].site, call[c].snap)
    /\ Moves(c, "put")
    /\ UNCHANGED <<snapSite, kept, archive, drawn, stamped, crowded, blurred>>

\* restored_at is written to the row, if it is still there.  A clone's snapshot
\* is its source's: cloned_from is written, no stamp.
Stamp(s, n) ==
    stamped' = [stamped EXCEPT ![s] = IF n \in Range(kept[s])
                                      THEN Append(RemoveFirst(@, n), n) ELSE @]

RestoreStampedEarly(c) ==    \* slip: restored_at is written before the restore is awaited
    LET s == call[c].site  n == call[c].snap IN
    /\ call[c].step \in Restoring
    /\ Stamp(s, n)
    /\ blurred' = IF n \in Range(kept[s]) THEN blurred ELSE blurred \cup {s}
    /\ Returns(c)
    /\ UNCHANGED <<snapSite, kept, archive, drawn, content, crowded>>

RestoreDone(c) ==
    LET s == call[c].site  n == call[c].snap IN
    /\ call[c].step = "put"
    /\ Stamp(s, n)
    /\ blurred' = IF n \in Range(kept[s]) THEN blurred ELSE blurred \cup {s}
    /\ Returns(c)
    /\ UNCHANGED <<snapSite, kept, archive, drawn, content, crowded>>

\* The archive is not there, or the container is gone, before the restore or in
\* the middle of it.  The provisioner answers 404, which provisionerFetch takes
\* for success: the row is stamped all the same.
RestoreMissed(c) ==
    LET s == call[c].site IN
    /\ call[c].step \in Restoring
    /\ Stamp(s, call[c].snap)
    /\ blurred' = blurred \cup {s}
    /\ Returns(c)
    /\ UNCHANGED <<snapSite, kept, archive, drawn, content, crowded>>

\* The container is stopped, Docker or the reading of the archive fails, or the
\* answer is lost: the site is left as it was, empty, or with the snapshot and
\* no stamp, as far as the provisioner came.
RestoreFails(c) ==
    /\ call[c].step \in Restoring
    /\ blurred' = blurred \cup {call[c].site}
    /\ Returns(c)
    /\ UNCHANGED <<snapSite, kept, archive, drawn, stamped, content, crowded>>

\* A clone's site is launched, and its restore begins when it is up.
CloneLaunched(c, t) ==
    /\ call[c].step = "launch" /\ snapSite[t] = "absent"
    /\ snapSite' = [snapSite EXCEPT ![t] = "running"]
    /\ call' = [call EXCEPT ![c] = [step |-> "ask", site |-> t, snap |-> call[c].snap]]
    /\ UNCHANGED <<kept, archive, drawn, stamped, content, crowded, blurred>>

CloneFails(c) ==
    /\ call[c].step = "launch"
    /\ Returns(c)
    /\ UNCHANGED <<snapSite, kept, archive, drawn, stamped, content, crowded, blurred>>

----------------------------------------------------------------------------
(* The site itself.                                                        *)

\* The site is deleted or expires.  Its snapshots stay: nothing calls
\* cleanupSiteSnapshots.
SiteEnds(s) ==
    /\ snapSite[s] = "running"
    /\ snapSite' = [snapSite EXCEPT ![s] = "expired"]
    /\ UNCHANGED <<kept, archive, drawn, stamped, content, call, crowded, blurred>>

\* clearFinishedSites is one DELETE: one snapshot left on one of the sites and
\* the foreign key refuses all of them.
SitesCleared ==
    LET finished == {s \in SnapSites : snapSite[s] = "expired"} IN
    /\ finished # {} /\ \A s \in finished : kept[s] = <<>>
    /\ snapSite' = [s \in SnapSites |-> IF s \in finished THEN "cleared" ELSE snapSite[s]]
    /\ UNCHANGED <<kept, archive, drawn, stamped, content, call, crowded, blurred>>

SnapshotsNext ==
    \/ \E c \in Calls, s \in Originals :
          \/ TakeSnapshot(c, s, "take") \/ TakeSnapshot(c, s, "copy")
          \/ \E n \in Snaps : RestoreSnapshot(c, s, n)
    \/ \E c \in Calls :
          \/ SnapshotTaken(c) \/ TakeFails(c) \/ ContentCleared(c) \/ ContentPut(c)
          \/ RestoreDone(c) \/ RestoreMissed(c) \/ RestoreFails(c) \/ CloneFails(c)
          \/ \E t \in SnapSites : CloneLaunched(c, t)
    \/ \E s \in Originals : SiteEnds(s) \/ \E n \in Snaps : DeleteSnapshot(s, n)
    \/ SitesCleared

SnapshotsSpec == SnapshotsInit /\ [][SnapshotsNext]_snapVars

----------------------------------------------------------------------------
(* Properties.                                                             *)

\* A site keeps no more than the limit as long as its snapshots are taken one
\* at a time: the count is read before the archive is awaited (takeSnapshot).
SnapshotLimit ==
    \A s \in SnapSites \ crowded : Len(kept[s]) <= MaxSnapshots

\* A snapshot that is listed can be restored: its archive is on disk.  None is
\* listed for a site that is gone, and none is listed twice.
RowsHaveArchives ==
    \A s \in SnapSites :
        /\ Range(kept[s]) \subseteq archive
        /\ snapSite[s] = "cleared" => kept[s] = <<>>
        /\ Cardinality(Range(kept[s])) = Len(kept[s])

\* The snapshot the panel badges as restored last is what the site holds,
\* once no restore is at work on it: stamps are written after the restore.
\* It may be wrong for a site whose restores overlapped, broke off or were
\* answered with a 404 (StampsFollowRestores), or whose last restored snapshot
\* was deleted: an older stamp then shows.
BadgeTellsContent ==
    \A s \in Originals \ blurred :
        stamped[s] # <<>> /\ ~SomeCall(s, {"cleared", "put"}) => LastRestored(s, content[s])

\* A step that stamps a snapshot of a site whose restores were in order so far
\* finds the snapshot in the site: the comment of restoreSnapshotToSite says it
\* is recorded only after the restore succeeds, never for state the site did
\* not receive.
StampsFollowRestores ==
    [][\A s \in Originals \ blurred :
         stamped'[s] # stamped[s] /\ Len(stamped'[s]) >= Len(stamped[s])
             => content[s] = Last(stamped'[s])]_snapVars
=============================================================================
