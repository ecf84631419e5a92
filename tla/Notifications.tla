--------------------------- MODULE Notifications ---------------------------
(***************************************************************************)
(* What recipients are told by mail (services/notification.service.ts).    *)
(* An event leaves one row per recipient; the row is mailed at once, or    *)
(* waits for the daily digest, or is never mailed, as the recipient chose  *)
(* when it was written.  Mails are awaited, so a digest may meet rows      *)
(* whose own mail is under way.                                            *)
(*                                                                         *)
(* The notification centre (getInbox, markRead) reads the same rows and    *)
(* has no part in what is mailed; it is left out.                          *)
(***************************************************************************)
EXTENDS FiniteSets, Integers

CONSTANTS
    Events, Recipients,
    NoOne,
    MaxRestarts     \* bound on the restarts of the process

ASSUME NoOneAssumption == NoOne \notin Recipients
ASSUME MaxRestartsAssumption == MaxRestarts \in Nat

Notes == Events \X Recipients
To(n) == n[2]

VARIABLES
    mode,           \* [Recipients -> notification_prefs.mode]
    reachable,      \* recipients with an address
    note,           \* [Notes -> the row]: sent_at and email_suppressed in one
    telling,        \* [Events -> recipients notifyClient has still to come to]
    sending,        \* rows whose own mail is under way
    digest,         \* sendDigests: recipients to come to, the one in hand, its rows
    mailDown,       \* the mail server refuses
    mailed,         \* [Notes -> mails that carried the row, two standing for more] (history)
    raced,          \* rows a digest selected while their own mail was under way (history)
    unsure,         \* rows mailed without the process learning of it (history)
    restarts

noteVars == <<mode, reachable, note, telling, sending, digest, mailDown, mailed, raced, unsure, restarts>>

Modes == {"immediate", "daily", "off"}
NoDigest == [left |-> {}, now |-> NoOne, rows |-> {}]

NotesTypeOK ==
    /\ mode \in [Recipients -> Modes]
    /\ reachable \subseteq Recipients
    /\ note \in [Notes -> {"absent", "pending", "suppressed", "sent"}]
    /\ telling \in [Events -> SUBSET Recipients]
    /\ sending \subseteq Notes
    /\ digest \in [left: SUBSET Recipients, now: Recipients \cup {NoOne}, rows: SUBSET Notes]
    /\ mailDown \in BOOLEAN
    /\ mailed \in [Notes -> 0..2]
    /\ raced \subseteq Notes /\ unsure \subseteq Notes
    /\ restarts \in 0..MaxRestarts

NotesInit ==
    /\ mode \in [Recipients -> Modes]
    /\ reachable = Recipients
    /\ note = [n \in Notes |-> "absent"]
    /\ telling = [e \in Events |-> {}]
    /\ sending = {} /\ digest = NoDigest
    /\ mailDown = FALSE
    /\ mailed = [n \in Notes |-> 0]
    /\ raced = {} /\ unsure = {} /\ restarts = 0

MailedNow(N) == [n \in Notes |-> IF n \in N /\ mailed[n] < 2 THEN mailed[n] + 1 ELSE mailed[n]]
Stamped(N) == [n \in Notes |-> IF n \in N THEN "sent" ELSE note[n]]

----------------------------------------------------------------------------
(* Events.                                                                 *)

\* notifyStaff tells one recipient, notifyClient every verified login.
EventHappens(e, R) ==
    /\ \A r \in Recipients : note[<<e, r>>] = "absent"
    /\ telling[e] = {}
    /\ R # {} /\ R \subseteq reachable
    /\ telling' = [telling EXCEPT ![e] = R]
    /\ UNCHANGED <<mode, reachable, note, sending, digest, mailDown, mailed, raced, unsure, restarts>>

\* The row is written as the preference says.
Written(r) == IF mode[r] = "off" THEN "suppressed" ELSE "pending"

\* notifyOne, up to its await; a client's logins are told one after the other.
NotifyOne(e, r) ==
    LET n == <<e, r>> IN
    /\ r \in telling[e]
    /\ \A x \in sending : x[1] # e
    /\ note' = [note EXCEPT ![n] = Written(r)]
    /\ telling' = [telling EXCEPT ![e] = @ \ {r}]
    /\ sending' = IF mode[r] = "immediate" /\ r \in reachable THEN sending \cup {n} ELSE sending
    /\ UNCHANGED <<mode, reachable, digest, mailDown, mailed, raced, unsure, restarts>>

\* The mail goes, and the row is stamped; or it does not, and the row waits.
MailSettles(n) ==
    /\ n \in sending
    /\ sending' = sending \ {n}
    /\ \/ ~mailDown /\ mailed' = MailedNow({n}) /\ note' = Stamped({n})
       \/ mailDown /\ UNCHANGED <<mailed, note>>
    /\ UNCHANGED <<mode, reachable, telling, digest, mailDown, raced, unsure, restarts>>

\* The server takes the mail and its answer is lost: for deliver, a failure.
MailUnconfirmed(n) ==
    /\ n \in sending /\ ~mailDown
    /\ sending' = sending \ {n}
    /\ mailed' = MailedNow({n})
    /\ unsure' = unsure \cup {n}
    /\ UNCHANGED <<mode, reachable, note, telling, digest, mailDown, raced, restarts>>

----------------------------------------------------------------------------
(* The digest.                                                             *)

DueAlsoSuppressed(n) ==      \* slip: the digest takes what was switched off
    note[n] \in {"pending", "suppressed"}

\* pendingByRecipient
Due(n) == note[n] = "pending"

\* At 08:00 everything that waits is selected, once.
DigestSelects ==
    LET rows == {n \in Notes : Due(n)} IN
    /\ digest = NoDigest /\ rows # {}
    /\ digest' = [left |-> {To(n) : n \in rows}, now |-> NoOne, rows |-> rows]
    /\ raced' = raced \cup (rows \cap sending)
    /\ UNCHANGED <<mode, reachable, note, telling, sending, mailDown, mailed, unsure, restarts>>

Group(r) == {n \in digest.rows : To(n) = r}

\* The digest once r's group is dealt with.
GroupDone(r) ==
    IF digest.left = {} THEN NoDigest
    ELSE [digest EXCEPT !.now = NoOne, !.rows = @ \ Group(r)]

\* A recipient with an address is mailed; the rows of one without are stamped,
\* or they would be tried every day.
DigestMails(r) ==
    /\ r \in digest.left /\ digest.now = NoOne
    /\ \/ /\ r \in reachable
          /\ digest' = [digest EXCEPT !.left = @ \ {r}, !.now = r]
          /\ UNCHANGED note
       \/ /\ r \notin reachable
          /\ note' = Stamped(Group(r))
          /\ digest' = IF digest.left = {r} THEN NoDigest
                       ELSE [digest EXCEPT !.left = @ \ {r}, !.rows = @ \ Group(r)]
    /\ UNCHANGED <<mode, reachable, telling, sending, mailDown, mailed, raced, unsure, restarts>>

DigestSettlesFirst(r) ==    \* slip: only the first line of the mail is stamped
    /\ digest.now = r /\ r # NoOne
    /\ \/ /\ ~mailDown /\ mailed' = MailedNow(Group(r))
          /\ \E n \in Group(r) : note' = Stamped({n})
       \/ mailDown /\ UNCHANGED <<mailed, note>>
    /\ digest' = GroupDone(r)
    /\ UNCHANGED <<mode, reachable, telling, sending, mailDown, raced, unsure, restarts>>

DigestGivesUp(r) ==         \* slip: rows whose mail failed are stamped all the same
    /\ digest.now = r /\ r # NoOne
    /\ note' = Stamped(Group(r))
    /\ mailed' = IF mailDown THEN mailed ELSE MailedNow(Group(r))
    /\ digest' = GroupDone(r)
    /\ UNCHANGED <<mode, reachable, telling, sending, mailDown, raced, unsure, restarts>>

\* The group's mail goes and its rows are stamped; or they wait for tomorrow.
DigestSettles(r) ==
    /\ digest.now = r /\ r # NoOne
    /\ \/ ~mailDown /\ mailed' = MailedNow(Group(r)) /\ note' = Stamped(Group(r))
       \/ mailDown /\ UNCHANGED <<mailed, note>>
    /\ digest' = GroupDone(r)
    /\ UNCHANGED <<mode, reachable, telling, sending, mailDown, raced, unsure, restarts>>

\* The server takes the digest and its answer is lost: the rows wait for tomorrow.
DigestUnconfirmed(r) ==
    /\ digest.now = r /\ r # NoOne /\ ~mailDown
    /\ mailed' = MailedNow(Group(r))
    /\ unsure' = unsure \cup Group(r)
    /\ digest' = GroupDone(r)
    /\ UNCHANGED <<mode, reachable, note, telling, sending, mailDown, raced, restarts>>

----------------------------------------------------------------------------
(* The surroundings.                                                       *)

SetNotificationMode(r, m) ==
    /\ mode[r] # m
    /\ mode' = [mode EXCEPT ![r] = m]
    /\ UNCHANGED <<reachable, note, telling, sending, digest, mailDown, mailed, raced, unsure, restarts>>

\* A portal login is revoked, or a staff user removed.
AddressGoes(r) ==
    /\ r \in reachable
    /\ reachable' = reachable \ {r}
    /\ UNCHANGED <<mode, note, telling, sending, digest, mailDown, mailed, raced, unsure, restarts>>

MailServerTurns ==
    /\ mailDown' = ~mailDown
    /\ UNCHANGED <<mode, reachable, note, telling, sending, digest, mailed, raced, unsure, restarts>>

\* What is awaited is lost; a mail may have gone out.
NotesRestart ==
    LET awaited == sending \cup IF digest.now = NoOne THEN {} ELSE Group(digest.now) IN
    /\ restarts < MaxRestarts
    /\ restarts' = restarts + 1
    /\ \/ ~mailDown /\ mailed' = MailedNow(awaited) /\ unsure' = unsure \cup awaited
       \/ UNCHANGED <<mailed, unsure>>
    /\ telling' = [e \in Events |-> {}]
    /\ sending' = {} /\ digest' = NoDigest
    /\ UNCHANGED <<mode, reachable, note, mailDown, raced>>

DigestStep == DigestSelects \/ \E r \in Recipients : DigestMails(r) \/ DigestSettles(r)

NotesNext ==
    \/ \E e \in Events, R \in SUBSET Recipients : EventHappens(e, R)
    \/ \E e \in Events, r \in Recipients : NotifyOne(e, r)
    \/ \E n \in Notes : MailSettles(n) \/ MailUnconfirmed(n)
    \/ DigestStep
    \/ \E r \in Recipients : \/ DigestUnconfirmed(r) \/ AddressGoes(r)
                            \/ \E m \in Modes : SetNotificationMode(r, m)
    \/ MailServerTurns
    \/ NotesRestart

\* The digest runs every day, and a mail is taken, refused or times out.
NotesFairness ==
    /\ WF_noteVars(DigestStep)
    /\ \A n \in Notes : WF_noteVars(MailSettles(n))

NotesSpec == NotesInit /\ [][NotesNext]_noteVars /\ NotesFairness

----------------------------------------------------------------------------
(* Properties.                                                             *)

\* Nobody is mailed twice about one thing, unless a digest ran while the
\* row's own mail was under way, or the mail server took a mail without the
\* process learning of it: the row then still says it was not sent.
MailedOnceUnlessRaced ==
    \A n \in Notes \ (raced \cup unsure) :
        /\ mailed[n] <= 1
        /\ note[n] = "pending" => mailed[n] = 0

\* Who had mail switched off when the thing happened is never mailed about
\* it, not by a digest and not after switching mail on again.
SuppressedNeverMailed ==
    [][\A n \in Notes : note[n] = "suppressed" =>
         note'[n] = "suppressed" /\ mailed'[n] = mailed[n] /\ n \notin sending']_noteVars

\* News is not lost to a bad night of the mail server: once the server takes
\* mails for good and its answers to digests come back, every row that waits is
\* mailed and stamped, or its recipient's address goes.
PendingNewsArrives ==
    <>[](~mailDown) /\ <>[][\A r \in Recipients : ~DigestUnconfirmed(r)]_noteVars =>
        \A n \in Notes : (note[n] = "pending") ~> (note[n] = "sent" /\ (mailed[n] > 0 \/ To(n) \notin reachable))
=============================================================================
