--------------------------- MODULE PanelServices ---------------------------
(***************************************************************************)
(* The services of the panel that work beside its sites, in one            *)
(* specification.  They share a process and a database, and no row of it:  *)
(* no step of one reads or writes what another keeps.  So a behaviour      *)
(* follows one of them, its focus, while the others rest where they        *)
(* started; what they do in between is a stutter for it.                   *)
(***************************************************************************)
EXTENDS ScheduledLaunches, BulkJobs, ImageBuilds, Snapshots, Notifications, Invoices, Board, Heartbeats

VARIABLE focus      \* the service a behaviour follows

Services == {"launches", "bulk", "builds", "snapshots", "notes", "invoices", "board", "heartbeats"}

panelVars == <<focus, launchVars, bulkVars, buildVars, snapVars, noteVars, invoiceVars, boardVars, beatVars>>

\* What is out of focus starts in one way only.
OneStart ==
    /\ focus # "launches" => enabled
    /\ focus # "builds" => \A b \in Builds : build[b].tag = DefaultTag
    /\ focus # "notes" => \A r \in Recipients : mode[r] = "off"
    /\ focus # "invoices" => methods = {}

PanelInit ==
    /\ focus \in Services
    /\ LaunchesInit /\ BulkInit /\ BuildsInit /\ SnapshotsInit
    /\ NotesInit /\ InvoicesInit /\ BoardInit /\ HeartbeatsInit
    /\ OneStart

LaunchesWork ==
    /\ focus = "launches" /\ LaunchesNext
    /\ UNCHANGED <<focus, bulkVars, buildVars, snapVars, noteVars, invoiceVars, boardVars, beatVars>>

BulkWorks ==
    /\ focus = "bulk" /\ BulkNext
    /\ UNCHANGED <<focus, launchVars, buildVars, snapVars, noteVars, invoiceVars, boardVars, beatVars>>

BuildsWork ==
    /\ focus = "builds" /\ BuildsNext
    /\ UNCHANGED <<focus, launchVars, bulkVars, snapVars, noteVars, invoiceVars, boardVars, beatVars>>

SnapshotsWork ==
    /\ focus = "snapshots" /\ SnapshotsNext
    /\ UNCHANGED <<focus, launchVars, bulkVars, buildVars, noteVars, invoiceVars, boardVars, beatVars>>

NotesWork ==
    /\ focus = "notes" /\ NotesNext
    /\ UNCHANGED <<focus, launchVars, bulkVars, buildVars, snapVars, invoiceVars, boardVars, beatVars>>

InvoicesWork ==
    /\ focus = "invoices" /\ InvoicesNext
    /\ UNCHANGED <<focus, launchVars, bulkVars, buildVars, snapVars, noteVars, boardVars, beatVars>>

BoardWorks ==
    /\ focus = "board" /\ BoardNext
    /\ UNCHANGED <<focus, launchVars, bulkVars, buildVars, snapVars, noteVars, invoiceVars, beatVars>>

HeartbeatsWork ==
    /\ focus = "heartbeats" /\ HeartbeatsNext
    /\ UNCHANGED <<focus, launchVars, bulkVars, buildVars, snapVars, noteVars, invoiceVars, boardVars>>

PanelNext ==
    \/ LaunchesWork \/ BulkWorks \/ BuildsWork \/ SnapshotsWork
    \/ NotesWork \/ InvoicesWork \/ BoardWorks \/ HeartbeatsWork

\* Each service has the fairness its own module states.
PanelSpec ==
    /\ PanelInit /\ [][PanelNext]_panelVars
    /\ LaunchesFairness /\ BulkFairness /\ BuildsFairness /\ NotesFairness /\ HeartbeatsFairness

\* The state of every service has the shape its module gives it.
PanelTypeOK ==
    /\ focus \in Services
    /\ LaunchesTypeOK /\ BulkTypeOK /\ BuildsTypeOK /\ SnapshotsTypeOK
    /\ NotesTypeOK /\ InvoicesTypeOK /\ BoardTypeOK /\ HeartbeatsTypeOK
=============================================================================
