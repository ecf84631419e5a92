----------------------------- MODULE Approvals -----------------------------
(***************************************************************************)
(* What the OAuth server promises of an approval, with codes, tokens,      *)
(* clocks, roles and versions left out: it is offered once and granted     *)
(* once, takes the place of the approval its app had, only ever narrows,   *)
(* and has ended for good when it ends.  OAuthGrants is shown to implement *)
(* this specification.                                                     *)
(***************************************************************************)

CONSTANTS
    Approvals,  \* approvals there may ever be
    Apps,       \* a client on behalf of a user
    Scopes,
    NoApp       \* what an approval that was not offered yet is for

VARIABLES
    stage,
    app,        \* what the approval is for
    scopes      \* what may still be asked for on the strength of it

vars == <<stage, app, scopes>>

TypeOK ==
    /\ stage \in [Approvals -> {"none", "offered", "granted", "ended"}]
    /\ app \in [Approvals -> Apps \cup {NoApp}]
    /\ scopes \in [Approvals -> SUBSET Scopes]

Init ==
    /\ stage = [c \in Approvals |-> "none"]
    /\ app = [c \in Approvals |-> NoApp]
    /\ scopes = [c \in Approvals |-> {}]

Offer(c, a, S) ==
    /\ stage[c] = "none" /\ S # {}
    /\ stage' = [stage EXCEPT ![c] = "offered"]
    /\ app' = [app EXCEPT ![c] = a]
    /\ scopes' = [scopes EXCEPT ![c] = S]

\* The approvals of S end, and nothing may be asked on the strength of them.
EndIn(S) == [c \in Approvals |-> IF c \in S THEN "ended" ELSE stage[c]]
NothingIn(S) == [c \in Approvals |-> IF c \in S THEN {} ELSE scopes[c]]

\* In one step: the app has what c offers, and nothing else.
Grant(c) ==
    LET rivals == {d \in Approvals : stage[d] = "granted" /\ app[d] = app[c]} IN
    /\ stage[c] = "offered"
    /\ stage' = [EndIn(rivals) EXCEPT ![c] = "granted"]
    /\ scopes' = NothingIn(rivals)
    /\ UNCHANGED app

Narrow(c, S) ==
    /\ stage[c] = "granted"
    /\ S \subseteq scopes[c] /\ S # {}
    /\ scopes' = [scopes EXCEPT ![c] = S]
    /\ UNCHANGED <<stage, app>>

End(S) ==
    /\ \A c \in S : stage[c] \in {"offered", "granted"}
    /\ stage' = EndIn(S)
    /\ scopes' = NothingIn(S)
    /\ UNCHANGED app

Next ==
    \/ \E S \in SUBSET Approvals : End(S)
    \/ \E c \in Approvals : Grant(c) \/ \E S \in SUBSET Scopes : Narrow(c, S)
    \/ \E c \in Approvals, a \in Apps, S \in SUBSET Scopes : Offer(c, a, S)

Spec == Init /\ [][Next]_vars
=============================================================================
