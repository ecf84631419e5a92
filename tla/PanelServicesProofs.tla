------------------------ MODULE PanelServicesProofs ------------------------
(***************************************************************************)
(* The panel implements the specification of each of its services, so what *)
(* is proved of one alone (JobsProofs, RecordsProofs) holds of the panel.  *)
(***************************************************************************)
EXTENDS PanelServices, JobsProofs, RecordsProofs

(***************************************************************************)
(* Composition: a step of another service is a stutter.                    *)
(***************************************************************************)

LEMMA StepsAreLocal ==
    ASSUME [PanelNext]_panelVars
    PROVE  /\ [LaunchesNext]_launchVars /\ [BulkNext]_bulkVars /\ [BuildsNext]_buildVars
           /\ [SnapshotsNext]_snapVars /\ [NotesNext]_noteVars /\ [InvoicesNext]_invoiceVars
           /\ [BoardNext]_boardVars /\ [HeartbeatsNext]_beatVars
BY Zenon DEF PanelNext, panelVars, LaunchesWork, BulkWorks, BuildsWork, SnapshotsWork, NotesWork,
             InvoicesWork, BoardWorks, HeartbeatsWork

LEMMA PanelStarts ==
    ASSUME PanelInit
    PROVE  /\ LaunchesInit /\ BulkInit /\ BuildsInit /\ SnapshotsInit
           /\ NotesInit /\ InvoicesInit /\ BoardInit /\ HeartbeatsInit
BY DEF PanelInit

\* Each service works in the panel as its own module says, fairness included.
THEOREM PanelImplementsServices ==
    PanelSpec => /\ LaunchesSpec /\ BulkSpec /\ BuildsSpec /\ SnapshotsSpec
                 /\ NotesSpec /\ InvoicesSpec /\ BoardSpec /\ HeartbeatsSpec
BY StepsAreLocal, PanelStarts, PTL
DEF PanelSpec, LaunchesSpec, BulkSpec, BuildsSpec, SnapshotsSpec, NotesSpec, InvoicesSpec,
    BoardSpec, HeartbeatsSpec

\* The panel never leaves its states: every service's state is of the kind its
\* module gives it, whichever service a behaviour follows.
THEOREM PanelTypeCorrect == PanelSpec => []PanelTypeOK
<1>1. PanelInit => focus \in Services
  BY DEF PanelInit
<1>2. focus \in Services /\ [PanelNext]_panelVars => (focus \in Services)'
  BY Zenon DEF PanelNext, panelVars, LaunchesWork, BulkWorks, BuildsWork, SnapshotsWork, NotesWork,
               InvoicesWork, BoardWorks, HeartbeatsWork
<1>3. PanelSpec => [](focus \in Services)
  BY <1>1, <1>2, PTL DEF PanelSpec
<1>4. /\ focus \in Services
      /\ LaunchesTypeOK /\ BulkTypeOK /\ BuildsTypeOK /\ SnapshotsTypeOK
      /\ NotesTypeOK /\ InvoicesTypeOK /\ BoardTypeOK /\ HeartbeatsTypeOK
      => PanelTypeOK
  BY DEF PanelTypeOK
<1> QED
  BY <1>3, <1>4, PanelImplementsServices, LaunchesTypeCorrect, BulkTypeCorrect, BuildsTypeCorrect,
     SnapshotsTypeCorrect, NotesTypeCorrect, InvoicesTypeCorrect, BoardTypeCorrect, HeartbeatsTypeCorrect, PTL

\* Every safety invariant of a service alone is one of the panel.
THEOREM PanelKeepsInvariants ==
    PanelSpec => /\ []LaunchedOnceUnlessShared /\ []SitesAccountedFor
                 /\ []LatestFollowsDefault /\ []PendingBuildsAreHeld
                 /\ []SnapshotLimit /\ []RowsHaveArchives /\ []BadgeTellsContent
                 /\ []MailedOnceUnlessRaced
                 /\ []AwaitingHasPending /\ []IssuedNumbersStay
                 /\ []CardsInOrder /\ []ColumnsInOrder
                 /\ []BeatsCountedOnce
BY PanelImplementsServices, LaunchedOnce, OutcomesRecorded, AliasFollows, NoBuildForgotten,
   LimitKept, RowsBacked, BadgeCorrect, MailedOnce, QueueHasProofs, NumbersStay,
   CardsStayInOrder, ColumnsStayInOrder, BeatsOnce, PTL

\* And what no step of a service alone may do, no step of the panel does.
THEOREM PanelKeepsSteps == PanelSpec => NoSiteAfterCancel /\ SuppressedNeverMailed /\ SettledInvoicesStay
BY PanelImplementsServices, CancelledJobsStop, SuppressedStaySilent, SettledStay, PTL
=============================================================================
