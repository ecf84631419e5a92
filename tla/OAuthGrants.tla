---------------------------- MODULE OAuthGrants ----------------------------
(***************************************************************************)
(* The OAuth server of the API: authorization codes, grants and rotating   *)
(* tokens (oauth/token.service.ts), the approvals that mint codes, and the *)
(* user columns they are checked against.                                  *)
(*                                                                         *)
(* Every database transaction is one action.  A decision waits for the     *)
(* client's metadata document before it mints a code, and a change of      *)
(* password hashes between reading token_version and writing it.  Codes    *)
(* and tokens are unguessable, so one that is presented was minted; it may *)
(* be presented by anyone, at any time, any number of times.               *)
(***************************************************************************)
EXTENDS FiniteSets, Integers

CONSTANTS
    Users, Clients, Scopes,
    Codes, Grants, Tokens,  \* hashes and ids; a token is an access/refresh pair
    None,
    Tabs,                   \* changes of password that may be under way at once
    MaxVersion,             \* bound on token_version
    MaxDeciding             \* bound on the decisions under way at once

ASSUME BoundsAssumption == MaxVersion \in Nat /\ MaxDeciding \in Nat

VARIABLES
    version,    \* users.token_version
    staff,      \* users who exist, are verified, and are owner or admin
    changing,   \* updatePassword, between its read and its write
    deciding,   \* POST /authorize/decision, while the metadata is fetched
    codes, grants, tokens,
    cut,        \* codes whose approval was revoked, replayed or replaced (history)
    outdated    \* codes of users who changed password or e-mail since (history)

users == <<version, staff, changing>>
vars == <<users, deciding, codes, grants, tokens, cut, outdated>>

App == [client: Clients, user: Users]
SomeScopes == (SUBSET Scopes) \ {{}}
\* "dead": expired or invalidated, or a used one that was pruned.
CodeRow == [app: App, scopes: SomeScopes, version: 0..MaxVersion,
            state: {"pending", "used", "dead"}, grant: Grants \cup {None}]
\* code, the approval a grant comes from, is history: the table has it the other way.
GrantRow == [app: App, scopes: SomeScopes, version: 0..MaxVersion,
             revoked: BOOLEAN, code: Codes]
\* live: the refresh token has neither expired nor been pruned.
TokenRow == [grant: Grants, scopes: SomeScopes, rotated: BOOLEAN, live: BOOLEAN]
Change == [phase: {"idle"}] \cup [phase: {"hashing"}, user: Users, seen: 0..(MaxVersion - 1)]

ASSUME NoneAssumption == None \notin Grants \cup CodeRow \cup GrantRow \cup TokenRow

TypeOK ==
    /\ version \in [Users -> 0..MaxVersion]
    /\ staff \subseteq Users
    /\ changing \in [Tabs -> Change]
    /\ deciding \subseteq [app: App, scopes: SomeScopes]
    /\ codes \in [Codes -> CodeRow \cup {None}]
    /\ grants \in [Grants -> GrantRow \cup {None}]
    /\ tokens \in [Tokens -> TokenRow \cup {None}]
    /\ cut \subseteq Codes /\ outdated \subseteq Codes

Init ==
    /\ version = [u \in Users |-> 0]
    /\ staff = Users
    /\ changing = [tab \in Tabs |-> [phase |-> "idle"]]
    /\ deciding = {}
    /\ codes = [c \in Codes |-> None]
    /\ grants = [g \in Grants |-> None]
    /\ tokens = [t \in Tokens |-> None]
    /\ cut = {} /\ outdated = {}

\* userStillEntitled
Entitled(row) == row.app.user \in staff /\ version[row.app.user] = row.version

Minted == {c \in Codes : codes[c] # None}
Granted == {g \in Grants : grants[g] # None}
Issued == {t \in Tokens : tokens[t] # None}
Live(G) == {g \in G : ~grants[g].revoked}
GrantsOf(apps) == {g \in Granted : grants[g].app \in apps}
CodesOf(apps) == {c \in Minted : codes[c].app \in apps}
AppsOf(u) == {app \in App : app.user = u}

\* The grants table once every grant of G is revoked.
RevokedIn(G) ==
    [g \in Grants |-> IF g \in G THEN [grants[g] EXCEPT !.revoked = TRUE] ELSE grants[g]]

----------------------------------------------------------------------------
(* Approving.                                                              *)

\* The decision is authenticated, then waits for resolveClient.
Decide(app, S) ==
    /\ app.user \in staff
    /\ Cardinality(deciding) < MaxDeciding
    /\ deciding' = deciding \cup {[app |-> app, scopes |-> S]}
    /\ UNCHANGED <<users, codes, grants, tokens, cut, outdated>>

Approve(d, c) ==
    /\ codes[c] = None
    /\ d.app.user \in staff
    /\ codes' = [codes EXCEPT ![c] =
           [app |-> d.app, scopes |-> d.scopes, version |-> version[d.app.user],
            state |-> "pending", grant |-> None]]
    /\ deciding' = deciding \ {d}
    /\ UNCHANGED <<users, grants, tokens, cut, outdated>>

\* The client is not to be resolved, or the user may approve no longer.
DecisionFails(d) ==
    /\ deciding' = deciding \ {d}
    /\ UNCHANGED <<users, codes, grants, tokens, cut, outdated>>

----------------------------------------------------------------------------
(* Redeeming a code.                                                       *)

Token(g, S) == [grant |-> g, scopes |-> S, rotated |-> FALSE, live |-> TRUE]

\* The grants table once g is inserted for code c and the grants of old are revoked.
GrantFor(c, g, old) ==
    [RevokedIn(old) EXCEPT ![g] =
        [app |-> codes[c].app, scopes |-> codes[c].scopes, version |-> codes[c].version,
         revoked |-> FALSE, code |-> c]]

RedeemStacks(c, g, t) ==    \* slip: the previous grant of the app is kept
    /\ codes[c].state = "pending" /\ Entitled(codes[c])
    /\ grants[g] = None /\ tokens[t] = None
    /\ grants' = GrantFor(c, g, {})
    /\ codes' = [codes EXCEPT ![c] = [@ EXCEPT !.state = "used", !.grant = g]]
    /\ tokens' = [tokens EXCEPT ![t] = Token(g, codes[c].scopes)]
    /\ UNCHANGED <<users, deciding, cut, outdated>>

RedeemTwice(c, g, t) ==     \* slip: used_at is not looked at
    /\ codes[c].state \in {"pending", "used"} /\ Entitled(codes[c])
    /\ grants[g] = None /\ tokens[t] = None
    /\ grants' = GrantFor(c, g, Live(GrantsOf({codes[c].app})))
    /\ codes' = [codes EXCEPT ![c] = [@ EXCEPT !.state = "used", !.grant = g]]
    /\ tokens' = [tokens EXCEPT ![t] = Token(g, codes[c].scopes)]
    /\ UNCHANGED <<users, deciding, cut, outdated>>

\* Re-authorising an app replaces its previous grant.
Redeem(c, g, t) ==
    LET old == Live(GrantsOf({codes[c].app})) IN
    /\ codes[c].state = "pending"
    /\ Entitled(codes[c])
    /\ grants[g] = None /\ tokens[t] = None
    /\ grants' = GrantFor(c, g, old)
    /\ codes' = [codes EXCEPT ![c] = [@ EXCEPT !.state = "used", !.grant = g]]
    /\ tokens' = [tokens EXCEPT ![t] = Token(g, codes[c].scopes)]
    /\ cut' = cut \cup {grants[x].code : x \in old}
    /\ UNCHANGED <<users, deciding, outdated>>

\* A used code comes again: the grant of its first redemption is revoked.
Replay(c) ==
    /\ codes[c].state = "used"
    /\ grants' = RevokedIn({codes[c].grant})
    /\ cut' = cut \cup {c}
    /\ UNCHANGED <<users, deciding, codes, tokens, outdated>>

----------------------------------------------------------------------------
(* Refreshing.                                                             *)

\* A refresh token the table still has as live, of a grant that is not revoked.
Presentable(t) ==
    /\ tokens[t].live
    /\ ~grants[tokens[t].grant].revoked

CeilingOfGrant(t) == grants[tokens[t].grant].scopes  \* slip: a narrowing is forgotten
Ceiling(t) == tokens[t].scopes \cap grants[tokens[t].grant].scopes

\* The scopes a refresh may ask for; asking for none keeps those it has.
AskedAsIs(t) == SUBSET Ceiling(t)       \* slip: the empty list is taken at its word
Asked(t) == (SUBSET Ceiling(t)) \ {{}}

RotateUnconditionally(t, n, S) ==       \* slip: UPDATE without "rotated_at IS NULL"
    /\ Presentable(t) /\ Entitled(grants[tokens[t].grant])
    /\ tokens[n] = None
    /\ tokens' = [tokens EXCEPT ![t] = [@ EXCEPT !.rotated = TRUE],
                                ![n] = Token(tokens[t].grant, S)]
    /\ UNCHANGED <<users, deciding, codes, grants, cut, outdated>>

Rotate(t, n, S) ==
    /\ Presentable(t) /\ Entitled(grants[tokens[t].grant])
    /\ ~tokens[t].rotated
    /\ tokens[n] = None
    /\ tokens' = [tokens EXCEPT ![t] = [@ EXCEPT !.rotated = TRUE],
                                ![n] = Token(tokens[t].grant, S)]
    /\ UNCHANGED <<users, deciding, codes, grants, cut, outdated>>

\* No row is consumed: the token was used before, and the whole grant goes.
Reuse(t) ==
    LET g == tokens[t].grant IN
    /\ Presentable(t) /\ Entitled(grants[g])
    /\ tokens[t].rotated
    /\ grants' = RevokedIn({g})
    /\ cut' = cut \cup {grants[g].code}
    /\ UNCHANGED <<users, deciding, codes, tokens, outdated>>

\* The user is not entitled any more.
RefuseRefresh(t) ==
    LET g == tokens[t].grant IN
    /\ Presentable(t) /\ ~Entitled(grants[g])
    /\ grants' = RevokedIn({g})
    /\ cut' = cut \cup {grants[g].code}
    /\ UNCHANGED <<users, deciding, codes, tokens, outdated>>

----------------------------------------------------------------------------
(* Revoking.                                                               *)

CancelNothing(apps) == codes    \* slip: codes the client still has pending stay valid

\* The codes table once those pending for the apps are invalidated.
Cancel(apps) ==
    [c \in Codes |-> IF c \in CodesOf(apps) /\ codes[c].state = "pending"
                     THEN [codes[c] EXCEPT !.state = "dead"] ELSE codes[c]]

\* DELETE /grants/:id asks for a live grant, but POST /revoke takes any token.
RevokeGrant(g) ==
    /\ grants' = RevokedIn({g})
    /\ codes' = Cancel({grants[g].app})
    /\ cut' = cut \cup {grants[g].code} \cup
              {c \in CodesOf({grants[g].app}) : codes[c].state = "pending"}
    /\ UNCHANGED <<users, deciding, tokens, outdated>>

RevokeAllForUser(u) ==
    /\ u \in staff
    /\ grants' = RevokedIn(GrantsOf(AppsOf(u)))
    /\ codes' = Cancel(AppsOf(u))
    /\ cut' = cut \cup CodesOf(AppsOf(u))
    /\ UNCHANGED <<users, deciding, tokens, outdated>>

----------------------------------------------------------------------------
(* The user's row.                                                         *)

\* updatePassword reads the row, then compares and hashes.
PasswordRead(tab, u) ==
    /\ changing[tab] = [phase |-> "idle"]
    /\ version[u] < MaxVersion
    /\ changing' = [changing EXCEPT ![tab] =
           [phase |-> "hashing", user |-> u, seen |-> version[u]]]
    /\ UNCHANGED <<version, staff, deciding, codes, grants, tokens, cut, outdated>>

PasswordWritten(tab) ==
    LET p == changing[tab] IN
    /\ p.phase = "hashing"
    /\ version' = [version EXCEPT ![p.user] = p.seen + 1]
    /\ changing' = [changing EXCEPT ![tab] = [phase |-> "idle"]]
    /\ outdated' = outdated \cup CodesOf(AppsOf(p.user))
    /\ UNCHANGED <<staff, deciding, codes, grants, tokens, cut>>

\* The current password was wrong.
PasswordRefused(tab) ==
    /\ changing[tab].phase = "hashing"
    /\ changing' = [changing EXCEPT ![tab] = [phase |-> "idle"]]
    /\ UNCHANGED <<version, staff, deciding, codes, grants, tokens, cut, outdated>>

\* confirmEmailChange reads and writes in one transaction.
EmailConfirmed(u) ==
    /\ version[u] < MaxVersion
    /\ version' = [version EXCEPT ![u] = @ + 1]
    /\ outdated' = outdated \cup CodesOf(AppsOf(u))
    /\ UNCHANGED <<staff, changing, deciding, codes, grants, tokens, cut>>

\* updateUserRole, in either direction.
SetRole(u) ==
    /\ staff' = IF u \in staff THEN staff \ {u} ELSE staff \cup {u}
    /\ UNCHANGED <<version, changing, deciding, codes, grants, tokens, cut, outdated>>

----------------------------------------------------------------------------
(* Expiry and pruning.                                                     *)

\* After 60 seconds a pending code is no longer live; after a day any is deleted.
CodeEnds(c) ==
    /\ codes[c].state \in {"pending", "used"}
    /\ codes' = [codes EXCEPT ![c] = [@ EXCEPT !.state = "dead"]]
    /\ UNCHANGED <<users, deciding, grants, tokens, cut, outdated>>

TokenEnds(t) ==
    /\ tokens[t].live
    /\ tokens' = [tokens EXCEPT ![t] = [@ EXCEPT !.live = FALSE]]
    /\ UNCHANGED <<users, deciding, codes, grants, cut, outdated>>

----------------------------------------------------------------------------

Next ==
    \/ \E app \in App, S \in SomeScopes : Decide(app, S)
    \/ \E d \in deciding : DecisionFails(d) \/ \E c \in Codes : Approve(d, c)
    \/ \E c \in Minted : \/ Replay(c) \/ CodeEnds(c)
                         \/ \E g \in Grants, t \in Tokens : Redeem(c, g, t)
    \/ \E t \in Issued :
        \/ Reuse(t) \/ RefuseRefresh(t) \/ TokenEnds(t)
        \/ \E n \in Tokens, S \in Asked(t) : Rotate(t, n, S)
    \/ \E g \in Granted : RevokeGrant(g)
    \/ \E u \in Users : RevokeAllForUser(u) \/ EmailConfirmed(u) \/ SetRole(u)
    \/ \E tab \in Tabs : \/ PasswordWritten(tab) \/ PasswordRefused(tab)
                         \/ \E u \in Users : PasswordRead(tab, u)

Spec == Init /\ [][Next]_vars

----------------------------------------------------------------------------
(* Properties.                                                             *)

\* The grant can still serve: its tokens validate, or refresh into ones that do.
Usable(g) == g \in Granted /\ ~grants[g].revoked /\ Entitled(grants[g])

\* An app holds at most one live grant of a user, however many codes it collected
\* and in whatever order they are redeemed (redeemCode replaces, never stacks).
OneLiveGrant ==
    \A g, h \in Live(Granted) : grants[g].app = grants[h].app => g = h

\* A code yields at most one grant, whoever presents it how often: what replay
\* detection takes for the first redemption is the only one.
OneGrantPerCode ==
    \A g, h \in Granted : grants[g].code = grants[h].code => g = h

\* A grant has at most one refresh token that was never rotated, so of two who
\* hold the same one the second is always noticed (refresh).
OneRefreshToken ==
    \A t, v \in Issued :
        tokens[t].grant = tokens[v].grant /\ ~tokens[t].rotated /\ ~tokens[v].rotated
        => t = v

\* A narrowing binds "the new access token and every later refresh": the token to
\* be rotated next carries no scope any earlier one of its grant lacked.
ScopesOnlyNarrow ==
    \A t, v \in Issued :
        tokens[t].grant = tokens[v].grant /\ tokens[t].rotated /\ ~tokens[v].rotated
        => tokens[v].scopes \subseteq tokens[t].scopes

\* An approval that was revoked, replayed, reused or replaced never serves again,
\* neither through the grant it had nor through a code still pending at the time:
\* no role change, late redemption or refresh brings it back (revokeGrant,
\* revokeAllForUser, and the revocations of redeemCode and refresh).
CutApprovalsStayCut ==
    \A g \in Granted : grants[g].code \in cut => ~Usable(g)

\* A change of password or e-mail ends every approval made before it.
OutdatedApprovalsEnd ==
    \A g \in Granted : grants[g].code \in outdated => ~Usable(g)

----------------------------------------------------------------------------
(* What the tables promise.                                                *)

Stage(c) ==
    IF c \notin Minted THEN "none"
    ELSE IF codes[c].state = "pending" THEN "offered"
    ELSE IF \E g \in Live(Granted) : grants[g].code = c THEN "granted"
    ELSE "ended"

\* The scopes of the token a grant of c is refreshed from.
Refreshable(c) ==
    {s \in Scopes : \E t \in Issued : /\ ~tokens[t].rotated /\ s \in tokens[t].scopes
                                       /\ grants[tokens[t].grant].code = c}

StageOf == [c \in Codes |-> Stage(c)]
AppOf == [c \in Codes |-> IF c \in Minted THEN codes[c].app ELSE None]
ScopesOf ==
    [c \in Codes |-> CASE Stage(c) = "offered" -> codes[c].scopes
                       [] Stage(c) = "granted" -> Refreshable(c)
                       [] OTHER -> {}]

Approval == INSTANCE Approvals WITH
    Approvals <- Codes, Apps <- App, NoApp <- None,
    stage <- StageOf, app <- AppOf, scopes <- ScopesOf

\* Every approval is granted once at most, takes the place of its app's previous
\* one in the same step, only narrows, and is over for good when it is over:
\* codes, grants, tokens, pruning and all the ways to revoke come to no more.
ImplementsApprovals == Approval!Spec
=============================================================================
