-------------------------- MODULE SiteReservation --------------------------
(***************************************************************************)
(* What the sites table promises, with containers, background jobs and     *)
(* clocks left out: a launch reserves a slot and a subdomain in one        *)
(* transaction, a slot is given back at most once, and a subdomain is      *)
(* given back no earlier than its slot.  SiteLifecycle is shown to         *)
(* implement this specification.                                           *)
(***************************************************************************)
EXTENDS FiniteSets, Integers

CONSTANTS
    Sites,      \* row ids the table may ever hold
    Names,      \* subdomains
    NoName,     \* what a row that gave its subdomain back holds
    Caps        \* <<members, max>>: at most max live rows among members

\* What the theorems suppose of the constants.
SitesFinite == IsFiniteSet(Sites)
NamesProper == NoName \notin Names
CapsProper == Caps \subseteq (SUBSET Sites) \X (Nat \ {0})

VARIABLES
    reserved,   \* rows that count against the caps
    claim,      \* the subdomain each row holds
    spent       \* rows whose reservation is over

vars == <<reserved, claim, spent>>

TypeOK ==
    /\ reserved \subseteq Sites
    /\ claim \in [Sites -> Names \cup {NoName}]
    /\ spent \subseteq Sites

Init ==
    /\ reserved = {}
    /\ claim = [s \in Sites |-> NoName]
    /\ spent = {}

\* Every cap the row falls under has room for one more.
RoomFor(s) ==
    \A cap \in Caps : s \in cap[1] => Cardinality(reserved \cap cap[1]) < cap[2]

Reserve(s, n) ==
    /\ s \notin reserved \cup spent
    /\ \A t \in Sites : claim[t] # n
    /\ RoomFor(s)
    /\ reserved' = reserved \cup {s}
    /\ claim' = [claim EXCEPT ![s] = n]
    /\ UNCHANGED spent

\* The rows of S end; the rows of F, all of them ended by now, free their names.
Release(S, F) ==
    /\ F \cap (reserved \ S) = {}
    /\ reserved' = reserved \ S
    /\ spent' = spent \cup S
    /\ claim' = [s \in Sites |-> IF s \in F THEN NoName ELSE claim[s]]

Next ==
    \/ \E s \in Sites, n \in Names : Reserve(s, n)
    \/ \E S, F \in SUBSET Sites : Release(S, F)

Spec == Init /\ [][Next]_vars

----------------------------------------------------------------------------

\* No cap is ever exceeded: the per-user, the server-wide and the per-blueprint
\* limits createSite checks hold of the rows that count against them.
WithinCaps ==
    \A cap \in Caps : Cardinality(reserved \cap cap[1]) <= cap[2]

\* A row with a slot has a subdomain, and no two rows ever hold the same one.
NamesExclusive ==
    /\ \A s \in reserved : claim[s] # NoName
    /\ \A s, t \in Sites : claim[s] = claim[t] /\ claim[s] # NoName => s = t

\* A slot given back is never taken again by the same row.
SlotsEndOnce == reserved \cap spent = {}
=============================================================================
