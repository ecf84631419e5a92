----------------------------- MODULE Heartbeats -----------------------------
(***************************************************************************)
(* Heartbeats on their way from an editor to the panel: the queue of the   *)
(* editor extensions (heartbeat-core/src/heartbeat-queue.ts), the post     *)
(* that carries it, and the panel's side of it (POST /heartbeats, with     *)
(* isDuplicate and insertHeartbeats of services/productivity.service.ts).  *)
(*                                                                         *)
(* A beat is known by its place in the order they were made, on one        *)
(* machine.  Its age is that of its own time: what is true of a beat's age *)
(* is true of every earlier beat's.                                        *)
(***************************************************************************)
EXTENDS Integers, Sequences, SequencesExt

CONSTANTS
    Files,          \* the files edited
    MaxBeats,       \* bound on the beats made
    MaxOverdue,     \* bound on the beats found seven days old
    MaxSince,       \* bound on the beats made before the present queue
    MaxQueue,       \* maxQueueSize of the editor, 500
    MaxBatch        \* beats the panel takes at once, 100

ASSUME QueueAssumption == MaxBeats \in Nat /\ MaxQueue \in Nat \ {0} /\ MaxBatch \in Nat \ {0}

VARIABLES
    made,           \* the beats made so far, in their order
    since,          \* beats made before the present queue, which does not know of them
    aged,           \* beats 1..aged are two minutes old
    overdue,        \* beats 1..overdue were found seven days old
    backlog,        \* HeartbeatQueue.queue
    posts,          \* [Posters -> the batch under way], empty for none
    timerSet,       \* the queue's timer is set, or its flush under way will set it
    stored,         \* [Beats -> rows in productivity_heartbeats, two standing for more]
    dropped,        \* beats the panel took and did not store (history)
    unheard,        \* beats stored without the editor learning of it (history)
    lost            \* beats the editor gave up (history)

beatVars == <<made, since, aged, overdue, backlog, posts, timerSet,
              stored, dropped, unheard, lost>>

Beats == 1..MaxBeats
Made == 1..Len(made)

\* The timer's post; one of it that outlived its queue; the last one of a queue.
Posters == {"timer", "left", "dispose"}

HeartbeatsTypeOK ==
    /\ made \in Seq([file : Files, isWrite : BOOLEAN]) /\ Len(made) <= MaxBeats
    /\ since \in 0..Len(made) /\ aged \in 0..Len(made) /\ overdue \in 0..aged
    /\ backlog \in Seq(Beats)
    /\ posts \in [Posters -> Seq(Beats)]
    /\ timerSet \in BOOLEAN
    /\ stored \in [Beats -> 0..2]
    /\ dropped \subseteq Beats /\ unheard \subseteq Beats /\ lost \subseteq Beats

OnItsWay == Range(backlog) \cup UNION {Range(posts[p]) : p \in Posters}

HeartbeatsInit ==
    /\ made = <<>> /\ since = 0 /\ aged = 0 /\ overdue = 0
    /\ backlog = <<>> /\ posts = [p \in Posters |-> <<>>]
    /\ timerSet = TRUE
    /\ stored = [n \in Beats |-> 0]
    /\ dropped = {} /\ unheard = {} /\ lost = {}

----------------------------------------------------------------------------
(* The editor.                                                             *)

\* trimQueue: the newest stay.
Newest(s) == IF Len(s) > MaxQueue THEN SubSeq(s, Len(s) - MaxQueue + 1, Len(s)) ELSE s

\* Giving up a beat that has its row loses nothing.
GiveUp(beats) == lost' = lost \cup {n \in beats : stored[n] = 0}

KeepNewest(s) ==
    /\ backlog' = Newest(s)
    /\ GiveUp(Range(s) \ Range(Newest(s)))

\* This queue has a beat of the file not two minutes old.
Debounced(f) == \E m \in Made : m > since /\ m > aged /\ made[m].file = f

Enqueue(f, isWrite) ==
    /\ Len(made) < MaxBeats
    /\ isWrite \/ ~Debounced(f)
    /\ made' = Append(made, [file |-> f, isWrite |-> isWrite])
    /\ KeepNewest(Append(backlog, Len(made) + 1))
    /\ UNCHANGED <<since, aged, overdue, posts, timerSet, stored, dropped, unheard>>

BeatAges ==
    /\ aged < Len(made)
    /\ aged' = aged + 1
    /\ UNCHANGED <<made, since, overdue, backlog, posts, timerSet, stored, dropped, unheard, lost>>

\* flush takes the whole queue, whatever its length.
TimerTakes ==
    /\ timerSet /\ backlog # <<>> /\ posts["timer"] = <<>>
    /\ backlog' = <<>>
    /\ UNCHANGED <<made, since, aged, overdue, stored, dropped, unheard>>

TimerFlushesLate ==         \* slip: a single beat is left for the next time
    /\ Len(backlog) > 1
    /\ TimerTakes
    /\ posts' = [posts EXCEPT !["timer"] = backlog]
    /\ UNCHANGED <<timerSet, lost>>

TimerFlushes ==
    /\ TimerTakes
    /\ posts' = [posts EXCEPT !["timer"] = backlog]
    /\ UNCHANGED <<timerSet, lost>>

\* postHeartbeats throws at an address it cannot use, after the queue was
\* taken: flush does not put it back, and the timer is not set again.
FlushThrows ==
    /\ TimerTakes
    /\ timerSet' = FALSE
    /\ GiveUp(Range(backlog))
    /\ UNCHANGED posts

\* dispose does not wait for a post of the timer that is under way; what its own
\* flush throws is caught, and an editor that is killed flushes nothing.  The
\* next queue starts empty, and debounces nothing this one had.  Bound: no post
\* that outlived an earlier queue is under way.
EditorRestarts ==
    /\ posts["left"] = <<>> /\ posts["dispose"] = <<>> /\ Len(made) <= MaxSince
    /\ \E last \in {backlog, <<>>} :
        /\ posts' = [posts EXCEPT !["timer"] = <<>>, !["left"] = posts["timer"], !["dispose"] = last]
        /\ GiveUp(Range(backlog) \ Range(last))
    /\ backlog' = <<>> /\ since' = Len(made) /\ timerSet' = TRUE
    /\ UNCHANGED <<made, aged, overdue, stored, dropped, unheard>>

----------------------------------------------------------------------------
(* The panel.                                                              *)

NeverDuplicate(n) == FALSE      \* slip: whatever arrives is inserted

\* isDuplicate: any row of the file whose own time is not two minutes ago; a
\* write is never taken for one.
IsDuplicate(n) ==
    /\ ~made[n].isWrite
    /\ \E m \in Made : m > aged /\ made[m].file = made[n].file /\ stored[m] > 0

\* The batch is filtered as a whole before anything is inserted.  A beat found
\* to be seven days old is then skipped without a word, with all before it.
InsertHeartbeats(batch) ==
    \E old \in {overdue} \cup {n \in Range(batch) : n \in overdue..aged /\ n <= MaxOverdue} :
        LET insertable == {n \in Range(batch) : n > old /\ ~IsDuplicate(n)} IN
        /\ overdue' = old
        /\ stored' = [n \in Beats |-> IF n \in insertable /\ stored[n] < 2
                                      THEN stored[n] + 1 ELSE stored[n]]
        /\ dropped' = dropped \cup {n \in Range(batch) \ insertable : stored[n] = 0}

Acceptable(batch) == Len(batch) <= MaxBatch

\* Only a queue that is still in use gets its batch back.
PutBack(p) ==
    /\ posts' = [posts EXCEPT ![p] = <<>>]
    /\ IF p = "timer" THEN KeepNewest(posts[p] \o backlog)
                      ELSE GiveUp(Range(posts[p])) /\ UNCHANGED backlog

PostTaken(p) ==
    /\ posts[p] # <<>> /\ Acceptable(posts[p])
    /\ InsertHeartbeats(posts[p])
    /\ posts' = [posts EXCEPT ![p] = <<>>]
    /\ UNCHANGED <<made, since, aged, backlog, timerSet, unheard, lost>>

\* The panel stores the batch, and its answer is lost or comes after the ten
\* seconds a post is given.  (To a queue that ended, every answer is lost.)
PostUnconfirmed ==
    /\ posts["timer"] # <<>> /\ Acceptable(posts["timer"])
    /\ InsertHeartbeats(posts["timer"])
    /\ PutBack("timer")
    /\ unheard' = unheard \cup {n \in Range(posts["timer"]) : stored'[n] > 0}
    /\ UNCHANGED <<made, since, aged, timerSet>>

PostRefused(p) ==
    /\ posts[p] # <<>> /\ ~Acceptable(posts[p])
    /\ PutBack(p)
    /\ UNCHANGED <<made, since, aged, overdue, timerSet, stored, dropped, unheard>>

PostFails(p) ==             \* the panel is not reached
    /\ posts[p] # <<>>
    /\ PutBack(p)
    /\ UNCHANGED <<made, since, aged, overdue, timerSet, stored, dropped, unheard>>

\* The answer breaks off after its head: nothing resolves the post, so the
\* timer waits for ever.
PostHangs ==
    /\ posts["timer"] # <<>>
    /\ \/ Acceptable(posts["timer"]) /\ InsertHeartbeats(posts["timer"])
       \/ ~Acceptable(posts["timer"]) /\ UNCHANGED <<overdue, stored, dropped>>
    /\ posts' = [posts EXCEPT !["timer"] = <<>>]
    /\ timerSet' = FALSE
    /\ lost' = lost \cup {n \in Range(posts["timer"]) : stored'[n] = 0}
    /\ UNCHANGED <<made, since, aged, backlog, unheard>>

PostSettles(p) == PostFails(p) \/ PostRefused(p) \/ PostTaken(p)

HeartbeatsNext ==
    \/ \E f \in Files, isWrite \in BOOLEAN : Enqueue(f, isWrite)
    \/ BeatAges
    \/ TimerFlushes \/ FlushThrows \/ EditorRestarts
    \/ \E p \in Posters : PostSettles(p)
    \/ PostUnconfirmed \/ PostHangs

\* The timer fires as long as it is set, and a post is answered, fails or times
\* out.  A flush that throws, or hangs, takes the timer with it.
HeartbeatsFairness ==
    /\ WF_beatVars(TimerFlushes)
    /\ \A p \in Posters : WF_beatVars(PostSettles(p))

HeartbeatsSpec == HeartbeatsInit /\ [][HeartbeatsNext]_beatVars /\ HeartbeatsFairness

----------------------------------------------------------------------------
(* Properties.                                                             *)

\* A beat is on its way, stored, or gone in one of the ways the code has: given
\* up as the oldest of too many, forgotten by the editor, or dropped by the
\* panel, which drops no write of the last days and nothing whose file has no
\* row.  It is stored once, and then no longer on its way, unless an answer was
\* lost: then a second post of it is stored again only when it is a write or
\* two minutes old.
BeatsCountedOnce ==
    \A n \in Made :
        /\ n \in OnItsWay \/ stored[n] > 0 \/ n \in lost \cup dropped
        /\ n \in dropped =>
              \/ n <= overdue
              \/ ~made[n].isWrite /\ \E m \in Made : made[m].file = made[n].file /\ stored[m] > 0
        /\ n \notin unheard => stored[n] <= 1 /\ (n \in OnItsWay => stored[n] = 0)
        /\ stored[n] > 1 => made[n].isWrite \/ n <= aged

\* The queue empties once the panel can be reached and the editor stays open
\* with its timer set, unless it once grew beyond what the panel takes at a
\* time: it is always posted whole, and a post that is too long is refused for
\* ever.
BacklogDrains ==
    (<>[]timerSet /\ <>[][\A p \in Posters : ~PostFails(p)]_beatVars) =>
        \A n \in Beats :
            (n \in Range(backlog)) ~>
                (stored[n] > 0 \/ n \in lost \cup dropped
                 \/ \E s \in {backlog, posts["timer"]} : Len(s) > MaxBatch)
=============================================================================
