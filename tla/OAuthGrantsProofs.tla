------------------------- MODULE OAuthGrantsProofs -------------------------
(***************************************************************************)
(* The invariants of OAuthGrants, for any number of users, apps, codes,    *)
(* grants and tokens.                                                      *)
(***************************************************************************)
EXTENDS OAuthGrants, TLAPS

\* What the three tables say of each other.
Linked ==
    /\ \A c \in Minted : codes[c].state = "used" =>
           /\ codes[c].grant \in Granted
           /\ grants[codes[c].grant].code = c
    /\ \A g \in Granted :
           /\ grants[g].code \in Minted
           /\ codes[grants[g].code].app = grants[g].app
           /\ codes[grants[g].code].state # "pending"
    /\ \A t \in Issued : tokens[t].grant \in Granted

\* A cut approval is spent, and its grant revoked.
CutInv ==
    /\ \A c \in cut : c \in Minted /\ codes[c].state # "pending"
    /\ \A g \in Granted : grants[g].code \in cut => grants[g].revoked

IInv == /\ TypeOK /\ Linked /\ CutInv
        /\ OneLiveGrant /\ OneGrantPerCode /\ OneRefreshToken /\ ScopesOnlyNarrow

USE NoneAssumption, BoundsAssumption

----------------------------------------------------------------------------
(* The kinds of step the tables see.                                       *)

RevokeOne(g) ==
    /\ g \in Granted
    /\ grants' = RevokedIn({g})
    /\ cut' = cut \cup {grants[g].code}
    /\ UNCHANGED <<codes, tokens>>

Quiet == UNCHANGED <<codes, grants, tokens, cut>>

\* Revoking keeps every row, and everything in it but the mark.
LEMMA Revoking ==
    ASSUME TypeOK, NEW G \in SUBSET Granted
    PROVE  /\ RevokedIn(G) \in [Grants -> GrantRow \cup {None}]
           /\ \A g \in Grants : RevokedIn(G)[g] # None <=> grants[g] # None
           /\ \A g \in Granted : /\ RevokedIn(G)[g].app = grants[g].app
                                 /\ RevokedIn(G)[g].code = grants[g].code
                                 /\ RevokedIn(G)[g].revoked <=> grants[g].revoked \/ g \in G
<1>1. \A g \in Granted : grants[g] \in GrantRow
  BY DEF TypeOK, Granted
<1>2. ASSUME NEW g \in G
      PROVE  /\ [grants[g] EXCEPT !.revoked = TRUE] \in GrantRow
             /\ [grants[g] EXCEPT !.revoked = TRUE].app = grants[g].app
             /\ [grants[g] EXCEPT !.revoked = TRUE].code = grants[g].code
             /\ [grants[g] EXCEPT !.revoked = TRUE].revoked
  BY <1>1 DEF GrantRow
<1>3. \A g \in Grants : RevokedIn(G)[g] =
          IF g \in G THEN [grants[g] EXCEPT !.revoked = TRUE] ELSE grants[g]
  BY DEF RevokedIn
<1>4. RevokedIn(G) \in [Grants -> GrantRow \cup {None}]
  BY <1>2 DEF RevokedIn, TypeOK
<1> HIDE DEF RevokedIn, GrantRow
<1> QED BY ZenonT(60), <1>2, <1>3, <1>4 DEF Granted

LEMMA Kinds ==
    ASSUME TypeOK, Linked, [Next]_vars
    PROVE  \/ Quiet
           \/ \E d \in deciding, c \in Codes : Approve(d, c)
           \/ \E c \in Minted, g \in Grants, t \in Tokens : Redeem(c, g, t)
           \/ \E g \in Grants : RevokeOne(g)
           \/ \E t \in Issued, n \in Tokens : \E S \in Asked(t) : Rotate(t, n, S)
           \/ \E g \in Granted : RevokeGrant(g)
           \/ \E u \in Users : RevokeAllForUser(u)
           \/ \E c \in Minted : CodeEnds(c)
           \/ \E t \in Issued : TokenEnds(t)
<1>1. ASSUME NEW c \in Minted, Replay(c) PROVE \E g \in Grants : RevokeOne(g)
  BY <1>1 DEF Replay, RevokeOne, Linked, Granted
<1>2. ASSUME NEW t \in Issued, Reuse(t) \/ RefuseRefresh(t) PROVE \E g \in Grants : RevokeOne(g)
  BY <1>2 DEF Reuse, RefuseRefresh, RevokeOne, Linked, Granted
<1>3. ASSUME \/ \E app \in App, S \in SomeScopes : Decide(app, S)
             \/ \E d \in deciding : DecisionFails(d)
             \/ \E u \in Users : EmailConfirmed(u) \/ SetRole(u)
             \/ \E tab \in Tabs : \/ PasswordWritten(tab) \/ PasswordRefused(tab)
                                  \/ \E u \in Users : PasswordRead(tab, u)
             \/ UNCHANGED vars
      PROVE  Quiet
  BY <1>3 DEF Quiet, Decide, DecisionFails, EmailConfirmed, SetRole, PasswordWritten,
              PasswordRefused, PasswordRead, vars, users
<1> QED BY <1>1, <1>2, <1>3 DEF Next

----------------------------------------------------------------------------
(* Types.                                                                  *)

LEMMA UserTypes ==
    ASSUME TypeOK, [Next]_vars
    PROVE  /\ version' \in [Users -> 0..MaxVersion] /\ staff' \subseteq Users
           /\ changing' \in [Tabs -> Change]
           /\ deciding' \subseteq [app: App, scopes: SomeScopes]
           /\ outdated' \subseteq Codes
<1> USE DEF TypeOK
<1>1. ASSUME NEW app \in App, NEW S \in SomeScopes, Decide(app, S)
      PROVE  /\ UNCHANGED <<version, staff, changing, outdated>>
             /\ deciding' \subseteq [app: App, scopes: SomeScopes]
  BY <1>1 DEF Decide, users
<1>2. ASSUME NEW d \in deciding, DecisionFails(d) \/ \E c \in Codes : Approve(d, c)
      PROVE  /\ UNCHANGED <<version, staff, changing, outdated>>
             /\ deciding' \subseteq deciding
  BY <1>2 DEF DecisionFails, Approve, users
<1>3. ASSUME NEW tab \in Tabs, NEW u \in Users, PasswordRead(tab, u)
      PROVE  /\ UNCHANGED <<version, staff, deciding, outdated>>
             /\ changing' \in [Tabs -> Change]
  <2>1. version[u] \in 0..(MaxVersion - 1)
    BY <1>3 DEF PasswordRead
  <2> QED BY <1>3, <2>1 DEF PasswordRead, Change
<1>4. ASSUME NEW tab \in Tabs, PasswordWritten(tab)
      PROVE  /\ UNCHANGED <<staff, deciding>>
             /\ version' \in [Users -> 0..MaxVersion] /\ outdated' \subseteq Codes
             /\ changing' \in [Tabs -> Change]
  <2>1. changing[tab].user \in Users /\ changing[tab].seen \in 0..(MaxVersion - 1)
    BY <1>4 DEF PasswordWritten, Change
  <2>2. changing[tab].seen + 1 \in 0..MaxVersion
    BY <2>1
  <2>3. changing' \in [Tabs -> Change]
    BY <1>4 DEF PasswordWritten, Change
  <2> QED BY <1>4, <2>1, <2>2, <2>3 DEF PasswordWritten, CodesOf, Minted
<1>5. ASSUME NEW tab \in Tabs, PasswordRefused(tab)
      PROVE  /\ UNCHANGED <<version, staff, deciding, outdated>>
             /\ changing' \in [Tabs -> Change]
  BY <1>5 DEF PasswordRefused, Change
<1>6. ASSUME NEW u \in Users, EmailConfirmed(u)
      PROVE  /\ UNCHANGED <<staff, changing, deciding>>
             /\ version' \in [Users -> 0..MaxVersion] /\ outdated' \subseteq Codes
  BY <1>6 DEF EmailConfirmed, CodesOf, Minted
<1>7. ASSUME NEW u \in Users, SetRole(u)
      PROVE  UNCHANGED <<version, changing, deciding, outdated>> /\ staff' \subseteq Users
  BY <1>7 DEF SetRole
<1>8. ASSUME \/ UNCHANGED vars
             \/ \E c \in Minted : \/ Replay(c) \/ CodeEnds(c)
                                  \/ \E g \in Grants, t \in Tokens : Redeem(c, g, t)
             \/ \E t \in Issued :
                 \/ Reuse(t) \/ RefuseRefresh(t) \/ TokenEnds(t)
                 \/ \E n \in Tokens, S \in Asked(t) : Rotate(t, n, S)
             \/ \E g \in Granted : RevokeGrant(g)
             \/ \E u \in Users : RevokeAllForUser(u)
      PROVE  UNCHANGED <<version, staff, changing, deciding, outdated>>
  BY <1>8 DEF vars, users, Replay, CodeEnds, Redeem, Reuse, RefuseRefresh, TokenEnds, Rotate,
              RevokeGrant, RevokeAllForUser
<1> QED BY <1>1, <1>2, <1>3, <1>4, <1>5, <1>6, <1>7, <1>8 DEF Next

----------------------------------------------------------------------------
(* The tables, one kind of step at a time.                                 *)

Tables ==
    /\ codes \in [Codes -> CodeRow \cup {None}]
    /\ grants \in [Grants -> GrantRow \cup {None}]
    /\ tokens \in [Tokens -> TokenRow \cup {None}]
    /\ cut \subseteq Codes

TablesInv == /\ Tables /\ Linked /\ CutInv
             /\ OneLiveGrant /\ OneGrantPerCode /\ OneRefreshToken /\ ScopesOnlyNarrow

\* A new code is nobody's yet.
LEMMA ApproveKeeps ==
    ASSUME IInv, NEW d \in deciding, NEW c \in Codes, Approve(d, c)
    PROVE  TablesInv'
<1> DEFINE row == [app |-> d.app, scopes |-> d.scopes, version |-> version[d.app.user],
                   state |-> "pending", grant |-> None]
<1>1. row \in CodeRow /\ row # None /\ row.state = "pending"
  BY DEF IInv, TypeOK, CodeRow, App
<1>2. /\ codes' = [codes EXCEPT ![c] = row] /\ codes[c] = None
      /\ UNCHANGED <<grants, tokens, cut>>
  BY DEF Approve
<1> HIDE DEF row
<1>3. Minted' = Minted \cup {c} /\ c \notin Minted /\ \A x \in Minted : codes'[x] = codes[x]
  BY <1>1, <1>2 DEF Minted, IInv, TypeOK
<1>4. codes'[c] = row
  BY <1>2 DEF IInv, TypeOK
<1>5. Granted' = Granted /\ Issued' = Issued
  BY <1>2 DEF Granted, Issued
<1>6. Tables'
  BY <1>1, <1>2 DEF Tables, IInv, TypeOK
<1>7. Linked' /\ CutInv'
  BY <1>1, <1>2, <1>3, <1>4, <1>5 DEF Linked, CutInv, IInv
<1>8. OneLiveGrant' /\ OneGrantPerCode' /\ OneRefreshToken' /\ ScopesOnlyNarrow'
  BY <1>2, <1>5 DEF IInv, OneLiveGrant, OneGrantPerCode, OneRefreshToken, ScopesOnlyNarrow, Live
<1> QED BY <1>6, <1>7, <1>8 DEF TablesInv

\* One grant is revoked, and the approval it came from is cut.
LEMMA RevokeOneKeeps ==
    ASSUME IInv, NEW g \in Grants, RevokeOne(g)
    PROVE  TablesInv'
<1> USE DEF IInv
<1>1. /\ g \in Granted /\ cut' = cut \cup {grants[g].code}
      /\ codes' = codes /\ tokens' = tokens
  BY DEF RevokeOne
<1>2. /\ grants' \in [Grants -> GrantRow \cup {None}]
      /\ \A h \in Grants : grants'[h] # None <=> grants[h] # None
      /\ \A h \in Granted : /\ grants'[h].app = grants[h].app
                            /\ grants'[h].code = grants[h].code
                            /\ grants'[h].revoked <=> grants[h].revoked \/ h \in {g}
  BY <1>1, Revoking DEF RevokeOne
<1>3. Granted' = Granted /\ Minted' = Minted /\ Issued' = Issued
  BY <1>1, <1>2 DEF Granted, Minted, Issued
<1>4. grants[g].code \in Minted /\ grants[g].code \in Codes
  BY <1>1 DEF Linked, Minted
<1>5. Tables'
  BY <1>1, <1>2, <1>4 DEF Tables, TypeOK
<1>6. Linked'
  BY <1>1, <1>2, <1>3 DEF Linked
<1>7. CutInv'
  BY <1>1, <1>2, <1>3 DEF CutInv, Linked, OneGrantPerCode
<1>8. OneLiveGrant' /\ OneGrantPerCode'
  BY <1>2, <1>3 DEF OneLiveGrant, OneGrantPerCode, Live
<1>9. OneRefreshToken' /\ ScopesOnlyNarrow'
  BY <1>1, <1>3 DEF OneRefreshToken, ScopesOnlyNarrow
<1> QED BY <1>5, <1>6, <1>7, <1>8, <1>9 DEF TablesInv

\* Cancel ends codes that are pending, and leaves everything else of a row.
LEMMA Cancelling ==
    ASSUME TypeOK, NEW apps
    PROVE  /\ Cancel(apps) \in [Codes -> CodeRow \cup {None}]
           /\ \A c \in Codes : Cancel(apps)[c] # None <=> codes[c] # None
           /\ \A c \in Minted :
                /\ Cancel(apps)[c].app = codes[c].app /\ Cancel(apps)[c].grant = codes[c].grant
                /\ Cancel(apps)[c].scopes = codes[c].scopes
                /\ codes[c].state # "pending" => Cancel(apps)[c].state = codes[c].state
                /\ codes[c].state = "pending" => Cancel(apps)[c].state \in {"pending", "dead"}
                /\ codes[c].app \in apps => Cancel(apps)[c].state # "pending"
<1>1. \A c \in Minted : codes[c] \in CodeRow
  BY DEF TypeOK, Minted
<1>2. ASSUME NEW c \in Minted
      PROVE  /\ [codes[c] EXCEPT !.state = "dead"] \in CodeRow
             /\ [codes[c] EXCEPT !.state = "dead"].app = codes[c].app
             /\ [codes[c] EXCEPT !.state = "dead"].grant = codes[c].grant
             /\ [codes[c] EXCEPT !.state = "dead"].scopes = codes[c].scopes
             /\ [codes[c] EXCEPT !.state = "dead"].state = "dead"
  BY <1>1 DEF CodeRow
<1>3. \A c \in Codes : Cancel(apps)[c] =
          IF c \in Minted /\ codes[c].app \in apps /\ codes[c].state = "pending"
          THEN [codes[c] EXCEPT !.state = "dead"] ELSE codes[c]
  BY DEF Cancel, CodesOf
<1>4. Cancel(apps) = [c \in Codes |-> Cancel(apps)[c]]
  BY DEF Cancel
<1>5. \A c \in Codes : codes[c] \in CodeRow \cup {None}
  BY DEF TypeOK
<1> HIDE DEF Cancel, CodeRow
<1>6. Cancel(apps) \in [Codes -> CodeRow \cup {None}]
  BY <1>2, <1>3, <1>4, <1>5
<1>7. \A c \in Codes : Cancel(apps)[c] # None <=> codes[c] # None
  BY <1>2, <1>3 DEF Minted
<1>8. Minted \subseteq Codes
  BY DEF Minted
<1>9. ASSUME NEW c \in Minted
      PROVE  /\ Cancel(apps)[c].app = codes[c].app /\ Cancel(apps)[c].grant = codes[c].grant
             /\ Cancel(apps)[c].scopes = codes[c].scopes
             /\ codes[c].state # "pending" => Cancel(apps)[c].state = codes[c].state
             /\ codes[c].state = "pending" => Cancel(apps)[c].state \in {"pending", "dead"}
             /\ codes[c].app \in apps => Cancel(apps)[c].state # "pending"
  BY <1>2, <1>3, <1>8
<1> QED BY <1>6, <1>7, <1>9

\* Codes are cancelled and grants revoked together: for one grant and what its
\* app has pending, or for everything of a user.
LEMMA RevokingKeeps ==
    ASSUME IInv, NEW G \in SUBSET Granted, NEW apps, NEW C \in SUBSET Minted,
           grants' = RevokedIn(G), codes' = Cancel(apps), cut' = cut \cup C, tokens' = tokens,
           \A c \in C : codes[c].state = "pending" => codes[c].app \in apps,
           \A g \in Granted : grants[g].code \in C => g \in G
    PROVE  TablesInv'
<1> USE DEF IInv
<1>1. /\ grants' \in [Grants -> GrantRow \cup {None}]
      /\ \A h \in Grants : grants'[h] # None <=> grants[h] # None
      /\ \A h \in Granted : /\ grants'[h].app = grants[h].app
                            /\ grants'[h].code = grants[h].code
                            /\ grants'[h].revoked <=> grants[h].revoked \/ h \in G
  BY Revoking
<1>2. /\ codes' \in [Codes -> CodeRow \cup {None}]
      /\ \A c \in Codes : codes'[c] # None <=> codes[c] # None
      /\ \A c \in Minted :
            /\ codes'[c].app = codes[c].app /\ codes'[c].grant = codes[c].grant
            /\ codes[c].state # "pending" => codes'[c].state = codes[c].state
            /\ codes[c].state = "pending" => codes'[c].state \in {"pending", "dead"}
            /\ codes[c].app \in apps => codes'[c].state # "pending"
  BY Cancelling
<1>3. tokens' = tokens /\ cut' = cut \cup C
  OBVIOUS
<1>4. \A c \in C : codes[c].state = "pending" => codes[c].app \in apps
  OBVIOUS
<1>5. \A g \in Granted : grants[g].code \in C => g \in G
  OBVIOUS
<1>6. Granted' = Granted /\ Minted' = Minted /\ Issued' = Issued
  BY <1>1, <1>2, <1>3 DEF Granted, Minted, Issued
<1>7. Tables'
  BY <1>1, <1>2, <1>3 DEF Tables, TypeOK, Minted
<1>8. Linked'
  BY <1>1, <1>2, <1>3, <1>6 DEF Linked
<1>9. CutInv'
  BY <1>1, <1>2, <1>3, <1>4, <1>5, <1>6 DEF CutInv
<1>10. OneLiveGrant' /\ OneGrantPerCode'
  BY <1>1, <1>6 DEF OneLiveGrant, OneGrantPerCode, Live
<1>11. OneRefreshToken' /\ ScopesOnlyNarrow'
  BY <1>3, <1>6 DEF OneRefreshToken, ScopesOnlyNarrow
<1> QED BY <1>7, <1>8, <1>9, <1>10, <1>11 DEF TablesInv

LEMMA RevokeGrantKeeps ==
    ASSUME IInv, NEW g \in Granted, RevokeGrant(g)
    PROVE  TablesInv'
<1> DEFINE apps == {grants[g].app}
           C == {grants[g].code} \cup {c \in CodesOf(apps) : codes[c].state = "pending"}
<1>1. /\ grants' = RevokedIn({g}) /\ codes' = Cancel(apps) /\ cut' = cut \cup C
      /\ tokens' = tokens
  BY DEF RevokeGrant
<1>2. C \in SUBSET Minted
  BY DEF CodesOf, IInv, Linked
<1>3. \A c \in C : codes[c].state = "pending" => codes[c].app \in apps
  BY DEF CodesOf, IInv, Linked
<1>4. \A h \in Granted : grants[h].code \in C => h \in {g}
  BY DEF IInv, Linked, OneGrantPerCode
<1>5. {g} \in SUBSET Granted
  OBVIOUS
<1> HIDE DEF apps, C
<1> QED BY <1>1, <1>2, <1>3, <1>4, <1>5, RevokingKeeps

LEMMA RevokeAllKeeps ==
    ASSUME IInv, NEW u \in Users, RevokeAllForUser(u)
    PROVE  TablesInv'
<1> DEFINE apps == AppsOf(u)
           G == GrantsOf(apps)
           C == CodesOf(apps)
<1>1. grants' = RevokedIn(G) /\ codes' = Cancel(apps) /\ cut' = cut \cup C /\ tokens' = tokens
  BY DEF RevokeAllForUser
<1>2. C \in SUBSET Minted /\ \A c \in C : codes[c].app \in apps
  BY DEF CodesOf
<1>3. G \in SUBSET Granted
  BY DEF GrantsOf
<1>4. \A h \in Granted : grants[h].code \in C => h \in G
  BY DEF CodesOf, GrantsOf, IInv, Linked
<1> HIDE DEF apps, G, C
<1> QED BY <1>1, <1>2, <1>3, <1>4, RevokingKeeps

LEMMA CodeEndsKeeps ==
    ASSUME IInv, NEW c \in Minted, CodeEnds(c)
    PROVE  TablesInv'
<1> DEFINE dead == [codes[c] EXCEPT !.state = "dead"]
<1> USE DEF IInv
<1>1. dead \in CodeRow /\ dead.app = codes[c].app /\ dead.state = "dead" /\ dead # None
  BY DEF TypeOK, Minted, CodeRow
<1>2. codes' = [codes EXCEPT ![c] = dead] /\ UNCHANGED <<grants, tokens, cut>> /\ c \in Codes
  BY DEF CodeEnds, Minted
<1> HIDE DEF dead
<1>3. codes'[c] = dead /\ \A x \in Codes \ {c} : codes'[x] = codes[x]
  BY <1>2 DEF TypeOK
<1>4. Granted' = Granted /\ Issued' = Issued
  BY <1>2 DEF Granted, Issued
<1>5. Minted' = Minted /\ Minted \subseteq Codes
  BY <1>1, <1>3 DEF Minted
<1>6. Tables'
  BY <1>1, <1>2 DEF Tables, TypeOK
<1>7. Linked' /\ CutInv'
  BY <1>1, <1>2, <1>3, <1>4, <1>5 DEF Linked, CutInv
<1>8. OneLiveGrant' /\ OneGrantPerCode' /\ OneRefreshToken' /\ ScopesOnlyNarrow'
  BY <1>2, <1>4 DEF OneLiveGrant, OneGrantPerCode, OneRefreshToken, ScopesOnlyNarrow, Live
<1> QED BY <1>6, <1>7, <1>8 DEF TablesInv

LEMMA TokenEndsKeeps ==
    ASSUME IInv, NEW t \in Issued, TokenEnds(t)
    PROVE  TablesInv'
<1> DEFINE old == [tokens[t] EXCEPT !.live = FALSE]
<1> USE DEF IInv
<1>1. /\ old \in TokenRow /\ old.grant = tokens[t].grant /\ old.rotated = tokens[t].rotated
      /\ old.scopes = tokens[t].scopes /\ old # None
  BY DEF TypeOK, Issued, TokenRow
<1>2. tokens' = [tokens EXCEPT ![t] = old] /\ UNCHANGED <<codes, grants, cut>> /\ t \in Tokens
  BY DEF TokenEnds, Issued
<1> HIDE DEF old
<1>3. tokens'[t] = old /\ \A x \in Tokens \ {t} : tokens'[x] = tokens[x]
  BY <1>2 DEF TypeOK
<1>4. Granted' = Granted /\ Minted' = Minted
  BY <1>2 DEF Granted, Minted
<1>5. Issued' = Issued /\ Issued \subseteq Tokens
  BY <1>1, <1>3 DEF Issued
<1>6. Tables'
  BY <1>1, <1>2 DEF Tables, TypeOK
<1>7. Linked' /\ CutInv'
  BY <1>1, <1>2, <1>3, <1>4, <1>5 DEF Linked, CutInv
<1>8. OneLiveGrant' /\ OneGrantPerCode'
  BY <1>2, <1>4 DEF OneLiveGrant, OneGrantPerCode, Live
<1>9. OneRefreshToken' /\ ScopesOnlyNarrow'
  BY <1>1, <1>3, <1>5 DEF OneRefreshToken, ScopesOnlyNarrow
<1> QED BY <1>6, <1>7, <1>8, <1>9 DEF TablesInv

\* The successor carries no more than the token it replaces, the one token of its
\* grant that no other had replaced.
LEMMA RotateKeeps ==
    ASSUME IInv, NEW t \in Issued, NEW n \in Tokens, NEW S \in Asked(t), Rotate(t, n, S)
    PROVE  TablesInv'
<1> DEFINE old == [tokens[t] EXCEPT !.rotated = TRUE]
           new == Token(tokens[t].grant, S)
<1> USE DEF IInv
<1>1. /\ old \in TokenRow /\ old.grant = tokens[t].grant /\ old.rotated
      /\ old.scopes = tokens[t].scopes /\ old # None
  BY DEF TypeOK, Issued, TokenRow
<1>2. S \subseteq tokens[t].scopes /\ S \in SomeScopes
  BY DEF Asked, Ceiling, TypeOK, Issued, TokenRow, SomeScopes
<1>3. /\ new \in TokenRow /\ new.grant = tokens[t].grant /\ ~new.rotated
      /\ new.scopes = S /\ new # None
  <2>1. tokens[t].grant \in Grants
    BY DEF TypeOK, Issued, TokenRow
  <2>2. new = [grant |-> tokens[t].grant, scopes |-> S, rotated |-> FALSE, live |-> TRUE]
    BY DEF Token
  <2>3. new \in TokenRow
    BY <1>2, <2>1, <2>2 DEF TokenRow
  <2>4. new # None
    BY <2>3
  <2>5. new.grant = tokens[t].grant /\ new.scopes = S
    BY <2>2
  <2>6. ~new.rotated
    BY <2>2
  <2> QED BY <2>3, <2>4, <2>5, <2>6
<1>4. /\ tokens' = [tokens EXCEPT ![t] = old, ![n] = new] /\ UNCHANGED <<codes, grants, cut>>
      /\ t \in Tokens /\ ~tokens[t].rotated /\ n \notin Issued
  BY DEF Rotate, Issued
<1> HIDE DEF old, new
<1>5. tokens'[t] = old /\ tokens'[n] = new /\ \A x \in Tokens \ {t, n} : tokens'[x] = tokens[x]
  BY <1>4 DEF TypeOK
<1>6. Granted' = Granted /\ Minted' = Minted
  BY <1>4 DEF Granted, Minted
<1>7. Issued' = Issued \cup {n} /\ Issued \subseteq Tokens
  BY <1>1, <1>3, <1>5 DEF Issued
<1>8. Tables'
  BY <1>1, <1>3, <1>4 DEF Tables, TypeOK
<1>9. Linked' /\ CutInv'
  <2>1. tokens[t].grant \in Granted
    BY DEF Linked
  <2>2. \A x \in Issued' : tokens'[x].grant \in Granted
    BY <1>1, <1>3, <1>5, <1>7, <2>1 DEF Linked
  <2> QED BY <1>4, <1>6, <2>2 DEF Linked, CutInv
<1>10. OneLiveGrant' /\ OneGrantPerCode'
  BY <1>4, <1>6 DEF OneLiveGrant, OneGrantPerCode, Live
<1>11. OneRefreshToken'
  BY <1>1, <1>3, <1>4, <1>5, <1>7 DEF OneRefreshToken
<1>12. ScopesOnlyNarrow'
  <2> SUFFICES ASSUME NEW x \in Issued', NEW v \in Issued',
                      tokens'[x].grant = tokens'[v].grant,
                      tokens'[x].rotated, ~tokens'[v].rotated
               PROVE  tokens'[v].scopes \subseteq tokens'[x].scopes
    BY DEF ScopesOnlyNarrow
  <2>1. x \in Issued /\ v # t
    BY <1>1, <1>3, <1>5, <1>7
  <2>2. CASE v = n
    <3>1. tokens'[v].scopes \subseteq tokens[t].scopes /\ tokens'[v].grant = tokens[t].grant
      BY <1>2, <1>3, <1>5, <2>2
    <3>2. CASE x = t
      BY <1>1, <1>5, <3>1, <3>2
    <3>3. CASE x # t
      <4>1. tokens'[x] = tokens[x]
        BY <1>4, <1>5, <1>7, <2>1, <3>3
      <4>2. tokens[t].scopes \subseteq tokens[x].scopes
        BY <1>4, <2>1, <3>1, <4>1 DEF ScopesOnlyNarrow
      <4> QED BY <3>1, <4>1, <4>2
    <3> QED BY <3>2, <3>3
  <2>3. CASE v # n
    <3>1. tokens'[v] = tokens[v] /\ v \in Issued
      BY <1>5, <1>7, <2>1, <2>3
    <3>2. tokens[v].grant # tokens[t].grant
      BY <1>4, <2>1, <3>1 DEF OneRefreshToken
    <3>3. x # t /\ tokens'[x] = tokens[x]
      BY <1>1, <1>4, <1>5, <1>7, <2>1, <3>1, <3>2
    <3> QED BY <2>1, <3>1, <3>3 DEF ScopesOnlyNarrow
  <2> QED BY <2>2, <2>3
<1> QED BY <1>8, <1>9, <1>10, <1>11, <1>12 DEF TablesInv

\* The new grant is of a code no grant had, with the app's live grants revoked.
LEMMA RedeemKeeps ==
    ASSUME IInv, NEW c \in Minted, NEW g \in Grants, NEW t \in Tokens, Redeem(c, g, t)
    PROVE  TablesInv'
<1> DEFINE old == Live(GrantsOf({codes[c].app}))
           row == [app |-> codes[c].app, scopes |-> codes[c].scopes,
                   version |-> codes[c].version, revoked |-> FALSE, code |-> c]
           used == [codes[c] EXCEPT !.state = "used", !.grant = g]
           new == Token(g, codes[c].scopes)
           table == RevokedIn(old)
<1> USE DEF IInv
<1>1. /\ codes[c].state = "pending" /\ g \notin Granted /\ t \notin Issued
      /\ grants' = [table EXCEPT ![g] = row]
      /\ codes' = [codes EXCEPT ![c] = used]
      /\ tokens' = [tokens EXCEPT ![t] = new]
      /\ cut' = cut \cup {grants[x].code : x \in old}
  BY DEF Redeem, GrantFor, Granted, Issued
<1>2. codes[c] \in CodeRow /\ c \in Codes
  BY DEF TypeOK, Minted
<1>3. /\ used \in CodeRow /\ used # None /\ used.app = codes[c].app
      /\ used.state = "used" /\ used.grant = g
  BY <1>2 DEF CodeRow
<1>4. row \in GrantRow /\ row # None
  <2>1. /\ codes[c].app \in App /\ codes[c].scopes \in SomeScopes
        /\ codes[c].version \in 0..MaxVersion
    BY <1>2 DEF CodeRow
  <2>2. row \in GrantRow
    BY <1>2, <2>1 DEF GrantRow
  <2> QED BY <2>2
<1>5. row.app = codes[c].app /\ row.code = c
  OBVIOUS
<1>6. ~row.revoked
  OBVIOUS
<1>7. new \in TokenRow /\ new # None
  <2>1. codes[c].scopes \in SomeScopes
    BY <1>2 DEF CodeRow
  <2>2. new \in TokenRow
    BY <2>1 DEF Token, TokenRow
  <2> QED BY <2>2
<1>8. new.grant = g
  BY DEF Token
<1>9. \A x \in Granted : x \in old <=> grants[x].app = codes[c].app /\ ~grants[x].revoked
  BY DEF Live, GrantsOf
<1>10. old \in SUBSET Granted
  BY DEF Live, GrantsOf
<1> HIDE DEF old, row, used, new
<1>11. /\ table \in [Grants -> GrantRow \cup {None}]
       /\ \A h \in Grants : table[h] # None <=> grants[h] # None
       /\ \A h \in Granted : /\ table[h].app = grants[h].app
                             /\ table[h].code = grants[h].code
                             /\ table[h].revoked <=> grants[h].revoked \/ h \in old
  BY <1>10, Revoking
<1> HIDE DEF table
<1>12. grants'[g] = row /\ \A x \in Granted : grants'[x] = table[x]
  BY <1>1, <1>11 DEF Granted
<1>13. Granted' = Granted \cup {g}
  BY <1>1, <1>4, <1>11 DEF Granted
<1>14. Granted \subseteq Grants /\ Minted \subseteq Codes /\ Issued \subseteq Tokens
  BY DEF Granted, Minted, Issued
<1>15. codes'[c] = used /\ \A x \in Codes \ {c} : codes'[x] = codes[x]
  BY <1>1, <1>2 DEF TypeOK
<1>16. Minted' = Minted
  BY <1>3, <1>14, <1>15 DEF Minted
<1>17. tokens'[t] = new /\ \A x \in Issued : tokens'[x] = tokens[x]
  BY <1>1, <1>14 DEF TypeOK
<1>18. Issued' = Issued \cup {t}
  BY <1>1, <1>7 DEF Issued, TypeOK
<1>19. \A x \in Granted : grants[x].code # c /\ grants[x].code \in Minted
  BY <1>1 DEF Linked
<1>20. \A x \in Issued : tokens'[x].grant # g /\ tokens'[x].grant \in Granted
  BY <1>1, <1>17 DEF Linked
<1>21. Tables'
  <2>1. codes' \in [Codes -> CodeRow \cup {None}]
    BY <1>1, <1>3 DEF TypeOK
  <2>2. grants' \in [Grants -> GrantRow \cup {None}]
    BY <1>1, <1>4, <1>11
  <2>3. tokens' \in [Tokens -> TokenRow \cup {None}]
    BY <1>1, <1>7 DEF TypeOK
  <2>4. cut' \subseteq Codes
    BY <1>1, <1>10, <1>14, <1>19 DEF TypeOK
  <2> QED BY <2>1, <2>2, <2>3, <2>4 DEF Tables
<1>22. Linked'
  <2>1. \A x \in Minted' : codes'[x].state = "used" =>
            codes'[x].grant \in Granted' /\ grants'[codes'[x].grant].code = x
    BY <1>3, <1>5, <1>11, <1>12, <1>13, <1>14, <1>15, <1>16 DEF Linked
  <2>2. \A x \in Granted' : /\ grants'[x].code \in Minted'
                            /\ codes'[grants'[x].code].app = grants'[x].app
                            /\ codes'[grants'[x].code].state # "pending"
    BY <1>3, <1>5, <1>11, <1>12, <1>13, <1>14, <1>15, <1>16, <1>19 DEF Linked
  <2>3. \A x \in Issued' : tokens'[x].grant \in Granted'
    BY <1>8, <1>13, <1>17, <1>18, <1>20
  <2> QED BY <2>1, <2>2, <2>3 DEF Linked
<1>23. CutInv'
  <2>1. c \notin cut'
    BY <1>1, <1>10, <1>19 DEF CutInv
  <2>2. \A x \in cut' : x \in Minted' /\ codes'[x].state # "pending"
    BY <1>1, <1>3, <1>10, <1>14, <1>15, <1>16, <1>19, <2>1 DEF CutInv, Linked
  <2>3. \A x \in Granted : grants'[x].code \in cut' => grants'[x].revoked
    BY <1>1, <1>10, <1>11, <1>12 DEF CutInv, OneGrantPerCode
  <2> QED BY <1>5, <1>12, <1>13, <2>1, <2>2, <2>3 DEF CutInv
<1>24. OneGrantPerCode'
  BY <1>5, <1>11, <1>12, <1>13, <1>19 DEF OneGrantPerCode
<1>25. OneLiveGrant'
  <2>1. \A x \in Granted : ~grants'[x].revoked => grants'[x].app # codes[c].app /\ ~grants[x].revoked
    BY <1>9, <1>11, <1>12
  <2>2. \A x \in Granted : grants'[x].app = grants[x].app
    BY <1>11, <1>12
  <2> QED BY <1>5, <1>12, <1>13, <2>1, <2>2 DEF OneLiveGrant, Live
<1>26. OneRefreshToken' /\ ScopesOnlyNarrow'
  <2>1. \A x, v \in Issued' : tokens'[x].grant = tokens'[v].grant /\ x # v => x \in Issued /\ v \in Issued
    BY <1>8, <1>17, <1>18, <1>20
  <2>2. OneRefreshToken'
    BY <1>17, <2>1 DEF OneRefreshToken
  <2>3. ScopesOnlyNarrow'
    BY <1>17, <2>1 DEF ScopesOnlyNarrow
  <2> QED BY <2>2, <2>3
<1> QED BY <1>21, <1>22, <1>23, <1>24, <1>25, <1>26 DEF TablesInv

LEMMA QuietKeeps == ASSUME IInv, Quiet PROVE TablesInv'
<1>1. codes' = codes /\ grants' = grants /\ tokens' = tokens /\ cut' = cut
  BY DEF Quiet
<1>2. Minted' = Minted /\ Granted' = Granted /\ Issued' = Issued
  BY <1>1 DEF Minted, Granted, Issued
<1>3. Tables' /\ Linked' /\ CutInv'
  BY <1>1, <1>2 DEF Tables, Linked, CutInv, IInv, TypeOK
<1>4. OneLiveGrant' /\ OneGrantPerCode' /\ OneRefreshToken' /\ ScopesOnlyNarrow'
  BY <1>1, <1>2 DEF IInv, OneLiveGrant, OneGrantPerCode, OneRefreshToken, ScopesOnlyNarrow, Live
<1> QED BY <1>3, <1>4 DEF TablesInv

----------------------------------------------------------------------------
(* The invariant.                                                          *)

LEMMA Starts == Init => IInv
<1> SUFFICES ASSUME Init PROVE IInv
  OBVIOUS
<1>1. TypeOK
  BY DEF Init, TypeOK, Change
<1>2. Minted = {} /\ Granted = {} /\ Issued = {} /\ cut = {}
  BY DEF Init, Minted, Granted, Issued
<1>3. Linked /\ CutInv
  BY <1>2 DEF Linked, CutInv
<1>4. OneLiveGrant /\ OneGrantPerCode /\ OneRefreshToken /\ ScopesOnlyNarrow
  BY <1>2 DEF OneLiveGrant, OneGrantPerCode, OneRefreshToken, ScopesOnlyNarrow, Live
<1> QED BY <1>1, <1>3, <1>4 DEF IInv

LEMMA Steps == IInv /\ [Next]_vars => IInv'
<1> SUFFICES ASSUME IInv, [Next]_vars PROVE IInv'
  OBVIOUS
<1>1. TypeOK /\ Linked
  BY DEF IInv
<1>2. TablesInv'
  <2> HIDE DEF IInv, TypeOK, Linked, Next, vars
  <2> QED BY <1>1, Kinds, QuietKeeps, ApproveKeeps, RedeemKeeps, RevokeOneKeeps, RotateKeeps,
             RevokeGrantKeeps, RevokeAllKeeps, CodeEndsKeeps, TokenEndsKeeps
<1>3. TypeOK'
  BY <1>1, <1>2, UserTypes DEF TypeOK, TablesInv, Tables
<1> QED BY <1>2, <1>3 DEF IInv, TablesInv

\* Whatever is approved, redeemed, replayed, refreshed or revoked in whatever
\* order, the tables stay linked and every invariant of OAuthGrants holds.
THEOREM GrantsCorrect == Spec => []IInv
  BY Starts, Steps, PTL DEF Spec

\* Every row of the three tables is of its type; no token has an empty scope list.
THEOREM TypeCorrect == Spec => []TypeOK
<1>1. IInv => TypeOK
  BY DEF IInv
<1> QED BY <1>1, GrantsCorrect, PTL

\* redeemCode replaces the grant of an app, for any number of codes in hand.
THEOREM GrantsNeverStack == Spec => []OneLiveGrant
<1>1. IInv => OneLiveGrant
  BY DEF IInv
<1> QED BY <1>1, GrantsCorrect, PTL

\* A code is redeemed once.
THEOREM CodesRedeemedOnce == Spec => []OneGrantPerCode
<1>1. IInv => OneGrantPerCode
  BY DEF IInv
<1> QED BY <1>1, GrantsCorrect, PTL

\* A grant's tokens form a chain with one end, where it is refreshed from.
THEOREM OneEndOfTheChain == Spec => []OneRefreshToken
<1>1. IInv => OneRefreshToken
  BY DEF IInv
<1> QED BY <1>1, GrantsCorrect, PTL

\* The scopes shrink along the chain.
THEOREM RotationCorrect == Spec => []ScopesOnlyNarrow
<1>1. IInv => ScopesOnlyNarrow
  BY DEF IInv
<1> QED BY <1>1, GrantsCorrect, PTL

\* What was revoked, replayed, reused or replaced never serves again.
THEOREM CutsLast == Spec => []CutApprovalsStayCut
<1>1. IInv => CutApprovalsStayCut
  BY DEF IInv, CutInv, CutApprovalsStayCut, Usable
<1> QED BY <1>1, GrantsCorrect, PTL

----------------------------------------------------------------------------
(* The abstract approvals.                                                 *)

\* Steps that mint, grant and issue nothing, bring no code back to pending and no
\* grant back to life, and leave the tokens to be refreshed from as they are.
OnlyEnds ==
    /\ Minted' = Minted /\ Granted' = Granted /\ Issued' = Issued
    /\ \A c \in Minted : /\ codes'[c].app = codes[c].app /\ codes'[c].scopes = codes[c].scopes
                         /\ codes'[c].state = "pending" => codes[c].state = "pending"
    /\ \A g \in Granted : /\ grants'[g].code = grants[g].code
                          /\ grants[g].revoked => grants'[g].revoked
    /\ \A t \in Issued : /\ tokens'[t].grant = tokens[t].grant
                         /\ tokens'[t].scopes = tokens[t].scopes
                         /\ tokens'[t].rotated <=> tokens[t].rotated

\* What stage an approval is in, case by case.
LEMMA Staged ==
    ASSUME NEW c \in Codes
    PROVE  /\ Stage(c) \in {"none", "offered", "granted", "ended"}
           /\ Stage(c) = "none" <=> c \notin Minted
           /\ Stage(c) = "offered" <=> c \in Minted /\ codes[c].state = "pending"
           /\ Stage(c) = "granted" <=> /\ c \in Minted /\ codes[c].state # "pending"
                                       /\ \E g \in Granted : ~grants[g].revoked /\ grants[g].code = c
BY DEF Stage, Live

LEMMA EndsEnd ==
    ASSUME IInv, OnlyEnds
    PROVE  \E S \in SUBSET Codes : Approval!End(S)
<1> DEFINE S == {c \in Codes : Stage(c) \in {"offered", "granted"} /\ Stage(c)' # Stage(c)}
<1>1. \A c \in Codes : Stage(c)' = IF c \in S THEN "ended" ELSE Stage(c)
  <2> TAKE c \in Codes
  <2>1. Stage(c) = "none" => Stage(c)' = "none"
    BY Staged DEF OnlyEnds, Stage
  <2>2. Stage(c) = "offered" => Stage(c)' \in {"offered", "ended"}
    <3>1. Stage(c) = "offered" => \A g \in Granted : grants[g].code # c
      BY Staged DEF IInv, Linked
    <3> QED BY <3>1, Staged DEF OnlyEnds, Stage, Live
  <2>3. Stage(c) = "granted" => Stage(c)' \in {"granted", "ended"}
    BY Staged DEF OnlyEnds, Stage
  <2>4. Stage(c) = "ended" => Stage(c)' = "ended"
    BY Staged DEF OnlyEnds, Stage, Live
  <2> QED BY <2>1, <2>2, <2>3, <2>4, Staged
<1>2. \A c \in Codes : Refreshable(c)' = Refreshable(c)
  BY DEF OnlyEnds, Refreshable, IInv, Linked
<1>3. StageOf' = Approval!EndIn(S)
  BY <1>1 DEF StageOf, Approval!EndIn
<1>4. ScopesOf' = Approval!NothingIn(S)
  <2>1. \A c \in Codes : ScopesOf'[c] = IF c \in S THEN {} ELSE ScopesOf[c]
    <3> TAKE c \in Codes
    <3>1. CASE c \in S
      BY <1>1, <3>1 DEF ScopesOf
    <3>2. CASE c \notin S
      BY <1>1, <1>2, <3>2, Staged DEF ScopesOf, OnlyEnds
    <3> QED BY <3>1, <3>2
  <2> QED BY <2>1 DEF ScopesOf, Approval!NothingIn
<1>5. AppOf' = AppOf
  BY DEF AppOf, OnlyEnds
<1>6. \A c \in S : StageOf[c] \in {"offered", "granted"}
  BY DEF StageOf
<1>7. S \in SUBSET Codes
  OBVIOUS
<1> HIDE DEF S
<1> QED BY <1>3, <1>4, <1>5, <1>6, <1>7 DEF Approval!End

LEMMA RevokingEnds ==
    ASSUME IInv, NEW G \in SUBSET Granted, NEW apps,
           grants' = RevokedIn(G), codes' = codes \/ codes' = Cancel(apps), tokens' = tokens
    PROVE  OnlyEnds
<1>1. /\ \A h \in Grants : grants'[h] # None <=> grants[h] # None
      /\ \A h \in Granted : /\ grants'[h].code = grants[h].code
                            /\ grants[h].revoked => grants'[h].revoked
  BY Revoking DEF IInv
<1>2. /\ \A c \in Codes : codes'[c] # None <=> codes[c] # None
      /\ \A c \in Minted : /\ codes'[c].app = codes[c].app /\ codes'[c].scopes = codes[c].scopes
                           /\ codes'[c].state = "pending" => codes[c].state = "pending"
  BY Cancelling DEF IInv, Minted
<1>3. tokens' = tokens
  OBVIOUS
<1>4. Granted' = Granted /\ Minted' = Minted /\ Issued' = Issued
  BY <1>1, <1>2, <1>3 DEF Granted, Minted, Issued
<1> QED BY <1>1, <1>2, <1>3, <1>4 DEF OnlyEnds

LEMMA CodeEndsEnds ==
    ASSUME IInv, NEW c \in Minted, CodeEnds(c)
    PROVE  OnlyEnds
<1> DEFINE dead == [codes[c] EXCEPT !.state = "dead"]
<1>1. /\ dead \in CodeRow /\ dead.app = codes[c].app /\ dead.scopes = codes[c].scopes
      /\ dead.state = "dead" /\ dead # None
  BY DEF IInv, TypeOK, Minted, CodeRow
<1>2. codes' = [codes EXCEPT ![c] = dead] /\ UNCHANGED <<grants, tokens, cut>> /\ c \in Codes
  BY DEF CodeEnds, Minted
<1> HIDE DEF dead
<1>3. codes'[c] = dead /\ \A x \in Codes \ {c} : codes'[x] = codes[x]
  BY <1>2 DEF IInv, TypeOK
<1>4. Granted' = Granted /\ Issued' = Issued /\ Minted' = Minted /\ Minted \subseteq Codes
  BY <1>1, <1>2, <1>3 DEF Granted, Issued, Minted
<1> QED BY <1>1, <1>2, <1>3, <1>4 DEF OnlyEnds

LEMMA TokenEndsEnds ==
    ASSUME IInv, NEW t \in Issued, TokenEnds(t)
    PROVE  OnlyEnds
<1> DEFINE old == [tokens[t] EXCEPT !.live = FALSE]
<1>1. /\ old.grant = tokens[t].grant /\ old.rotated = tokens[t].rotated
      /\ old.scopes = tokens[t].scopes /\ old \in TokenRow /\ old # None
  BY DEF IInv, TypeOK, Issued, TokenRow
<1>2. tokens' = [tokens EXCEPT ![t] = old] /\ UNCHANGED <<codes, grants, cut>> /\ t \in Tokens
  BY DEF TokenEnds, Issued
<1> HIDE DEF old
<1>3. tokens'[t] = old /\ \A x \in Tokens \ {t} : tokens'[x] = tokens[x]
  BY <1>2 DEF IInv, TypeOK
<1>4. Granted' = Granted /\ Minted' = Minted /\ Issued' = Issued /\ Issued \subseteq Tokens
  BY <1>1, <1>2, <1>3 DEF Granted, Minted, Issued
<1> QED BY <1>1, <1>2, <1>3, <1>4 DEF OnlyEnds

LEMMA ScopesAre == ASSUME NEW S PROVE S \in SomeScopes <=> S \subseteq Scopes /\ S # {}
  BY DEF SomeScopes

\* A code is minted: an approval is offered.
LEMMA ApproveOffers ==
    ASSUME IInv, NEW d \in deciding, NEW c \in Codes, Approve(d, c)
    PROVE  Approval!Next
<1> DEFINE row == [app |-> d.app, scopes |-> d.scopes, version |-> version[d.app.user],
                   state |-> "pending", grant |-> None]
<1>1. /\ row \in CodeRow /\ row # None /\ row.state = "pending"
      /\ row.app = d.app /\ row.scopes = d.scopes
      /\ d.app \in App /\ d.scopes \in SUBSET Scopes /\ d.scopes # {}
  <2>1. d.app \in App /\ d.scopes \in SomeScopes
    BY DEF IInv, TypeOK
  <2>2. version[d.app.user] \in 0..MaxVersion
    BY <2>1 DEF IInv, TypeOK, App
  <2>3. row \in CodeRow
    BY <2>1, <2>2 DEF CodeRow
  <2>4. row # None
    BY <2>3
  <2>5. row.state = "pending" /\ row.app = d.app /\ row.scopes = d.scopes
    OBVIOUS
  <2>6. d.scopes \subseteq Scopes /\ d.scopes # {}
    BY <2>1, ScopesAre
  <2> HIDE DEF row
  <2> QED BY <2>1, <2>3, <2>4, <2>5, <2>6
<1>2. /\ codes' = [codes EXCEPT ![c] = row] /\ c \notin Minted
      /\ UNCHANGED <<grants, tokens, cut>>
  BY DEF Approve, Minted
<1> HIDE DEF row
<1>3. codes'[c] = row /\ \A x \in Codes \ {c} : codes'[x] = codes[x]
  BY <1>2 DEF IInv, TypeOK
<1>4. Minted' = Minted \cup {c} /\ Granted' = Granted /\ Issued' = Issued
  BY <1>1, <1>2, <1>3 DEF Minted, Granted, Issued
<1>5. Live(Granted)' = Live(Granted)
  BY <1>2, <1>4 DEF Live
<1>6. Stage(c) = "none" /\ Stage(c)' = "offered" /\ \A x \in Codes \ {c} : Stage(x)' = Stage(x)
  BY <1>1, <1>2, <1>3, <1>4, <1>5 DEF Stage
<1>7. \A x \in Codes : Refreshable(x)' = Refreshable(x)
  BY <1>2, <1>4 DEF Refreshable
<1>8. StageOf' = [StageOf EXCEPT ![c] = "offered"] /\ StageOf[c] = "none"
  BY <1>6 DEF StageOf
<1>9. AppOf' = [AppOf EXCEPT ![c] = d.app]
  BY <1>1, <1>3, <1>4 DEF AppOf
<1>10. ScopesOf' = [ScopesOf EXCEPT ![c] = d.scopes]
  BY <1>1, <1>3, <1>6, <1>7 DEF ScopesOf
<1>11. Approval!Offer(c, d.app, d.scopes)
  BY <1>1, <1>8, <1>9, <1>10 DEF Approval!Offer
<1> QED BY <1>1, <1>11 DEF Approval!Next

\* A refresh: the approval is narrowed to what the new token carries, the one
\* token of its grant that is to be refreshed from.
LEMMA RotateNarrows ==
    ASSUME IInv, NEW t \in Issued, NEW n \in Tokens, NEW S \in Asked(t), Rotate(t, n, S)
    PROVE  Approval!Next
<1> DEFINE old == [tokens[t] EXCEPT !.rotated = TRUE]
           new == Token(tokens[t].grant, S)
<1>0. PICK g \in Granted, c \in Codes : g = tokens[t].grant /\ c = grants[g].code
  BY DEF IInv, Linked, Minted
<1>1. /\ old \in TokenRow /\ old.grant = g /\ old.rotated /\ old # None
      /\ tokens[t] \in TokenRow
  <2>1. /\ old \in TokenRow /\ old.grant = tokens[t].grant /\ old.rotated
        /\ tokens[t] \in TokenRow /\ old # None
    BY DEF IInv, TypeOK, Issued, TokenRow
  <2> HIDE DEF old
  <2> QED BY <1>0, <2>1
<1>2. S \subseteq tokens[t].scopes /\ S # {} /\ tokens[t].scopes \subseteq Scopes
  <2>1. tokens[t].scopes \in SomeScopes
    BY <1>1 DEF TokenRow
  <2>2. S \subseteq Ceiling(t) /\ S # {}
    BY DEF Asked
  <2>3. Ceiling(t) \subseteq tokens[t].scopes
    BY DEF Ceiling
  <2> QED BY <2>1, <2>2, <2>3, ScopesAre
<1>3. new.grant = g /\ ~new.rotated /\ new.scopes = S /\ new # None
  <2>1. new = [grant |-> g, scopes |-> S, rotated |-> FALSE, live |-> TRUE]
    BY <1>0 DEF Token
  <2>2. new \in TokenRow
    <3>1. g \in Grants /\ S \in SomeScopes
      BY <1>2, ScopesAre DEF Granted
    <3> QED BY <2>1, <3>1 DEF TokenRow
  <2>3. new # None
    BY <2>2
  <2>4. new.grant = g /\ new.scopes = S /\ ~new.rotated
    BY <2>1
  <2> QED BY <2>3, <2>4
<1>4. /\ tokens' = [tokens EXCEPT ![t] = old, ![n] = new] /\ codes' = codes /\ grants' = grants
      /\ t \in Tokens /\ ~tokens[t].rotated /\ n \notin Issued /\ ~grants[g].revoked
  BY <1>0 DEF Rotate, Issued, Presentable
<1>5. c \in Minted /\ codes[c].state # "pending"
  BY <1>0 DEF IInv, Linked
<1> HIDE DEF old, new
<1>6. tokens'[t] = old /\ tokens'[n] = new /\ \A x \in Tokens \ {t, n} : tokens'[x] = tokens[x]
  BY <1>4 DEF IInv, TypeOK
<1>7. Issued' = Issued \cup {n} /\ Issued \subseteq Tokens /\ Granted' = Granted /\ Minted' = Minted
  BY <1>1, <1>3, <1>4, <1>6 DEF Issued, Granted, Minted
<1>8. \A x \in Codes : Stage(x)' = Stage(x)
  BY <1>4, <1>7 DEF Stage, Live
<1>9. Stage(c) = "granted"
  BY <1>0, <1>4, <1>5, Staged
<1>10. tokens[t].scopes \subseteq Refreshable(c)
  BY <1>0, <1>2, <1>4 DEF Refreshable
<1>11. Refreshable(c)' = S
  <2>1. \A x \in Issued' : ~tokens'[x].rotated /\ grants'[tokens'[x].grant].code = c => x = n
    <3> SUFFICES ASSUME NEW x \in Issued', ~tokens'[x].rotated,
                        grants'[tokens'[x].grant].code = c, x # n
                 PROVE  FALSE
      OBVIOUS
    <3>1. x # t /\ x \in Issued /\ tokens'[x] = tokens[x]
      BY <1>1, <1>6, <1>7
    <3>2. tokens[x].grant \in Granted
      BY <3>1 DEF IInv, Linked
    <3>3. tokens[x].grant = g
      BY <1>0, <1>4, <1>7, <3>1, <3>2 DEF IInv, OneGrantPerCode
    <3> QED BY <1>0, <1>4, <3>1, <3>3 DEF IInv, OneRefreshToken
  <2>2. ~tokens'[n].rotated /\ tokens'[n].scopes = S /\ grants'[tokens'[n].grant].code = c
    BY <1>0, <1>3, <1>4, <1>6
  <2>3. \A s \in Scopes : s \in Refreshable(c)' <=> s \in S
    BY <1>7, <2>1, <2>2 DEF Refreshable
  <2>4. Refreshable(c)' \subseteq Scopes /\ S \subseteq Scopes
    BY <1>2 DEF Refreshable
  <2> QED BY <2>3, <2>4
<1>12. \A x \in Codes \ {c} : Refreshable(x)' = Refreshable(x)
  <2> TAKE x \in Codes \ {c}
  <2>1. grants[tokens[t].grant].code # x /\ grants'[tokens'[t].grant].code # x /\ grants'[tokens'[n].grant].code # x
    BY <1>0, <1>1, <1>3, <1>4, <1>6
  <2>2. \A v \in Issued \ {t} : tokens'[v] = tokens[v]
    BY <1>4, <1>6, <1>7
  <2>3. \A s \in Scopes : s \in Refreshable(x)' <=> s \in Refreshable(x)
    BY <1>4, <1>7, <2>1, <2>2 DEF Refreshable
  <2>4. Refreshable(x)' \subseteq Scopes /\ Refreshable(x) \subseteq Scopes
    BY DEF Refreshable
  <2> QED BY <2>3, <2>4
<1>13. StageOf' = StageOf /\ AppOf' = AppOf /\ StageOf[c] = "granted"
  BY <1>4, <1>5, <1>7, <1>8, <1>9 DEF StageOf, AppOf
<1>14. ScopesOf' = [ScopesOf EXCEPT ![c] = S] /\ ScopesOf[c] = Refreshable(c)
  <2>1. ScopesOf[c] = Refreshable(c)
    BY <1>5, <1>9 DEF ScopesOf
  <2>2. ScopesOf'[c] = S
    <3>1. Stage(c)' = "granted" /\ c \in Codes
      BY <1>8, <1>9
    <3> QED BY <1>11, <3>1 DEF ScopesOf
  <2>3. \A x \in Codes \ {c} : ScopesOf'[x] = ScopesOf[x]
    BY <1>4, <1>8, <1>12 DEF ScopesOf
  <2> QED BY ZenonT(60), <2>1, <2>2, <2>3 DEF ScopesOf
<1>15. S \subseteq Scopes /\ S \subseteq ScopesOf[c]
  BY <1>2, <1>10, <1>14
<1>16. Approval!Narrow(c, S)
  BY <1>2, <1>13, <1>14, <1>15 DEF Approval!Narrow
<1> QED BY <1>5, <1>15, <1>16 DEF Approval!Next

\* A redemption: the approval is granted, those its app had end with it.
LEMMA RedeemGrants ==
    ASSUME IInv, NEW c \in Minted, NEW g \in Grants, NEW t \in Tokens, Redeem(c, g, t)
    PROVE  Approval!Next
<1> DEFINE old == Live(GrantsOf({codes[c].app}))
           row == [app |-> codes[c].app, scopes |-> codes[c].scopes,
                   version |-> codes[c].version, revoked |-> FALSE, code |-> c]
           used == [codes[c] EXCEPT !.state = "used", !.grant = g]
           new == Token(g, codes[c].scopes)
           table == RevokedIn(old)
           rivals == {d \in Codes : StageOf[d] = "granted" /\ AppOf[d] = AppOf[c]}
<1>1. /\ codes[c].state = "pending" /\ g \notin Granted /\ t \notin Issued
      /\ grants' = [table EXCEPT ![g] = row]
      /\ codes' = [codes EXCEPT ![c] = used]
      /\ tokens' = [tokens EXCEPT ![t] = new]
  BY DEF Redeem, GrantFor, Granted, Issued
<1>2. /\ codes[c] \in CodeRow /\ c \in Codes /\ codes[c].scopes \in SomeScopes
      /\ codes[c].app \in App /\ codes[c].version \in 0..MaxVersion
  <2>1. codes[c] \in CodeRow /\ c \in Codes
    BY DEF IInv, TypeOK, Minted
  <2> QED BY <2>1 DEF CodeRow
<1>3. /\ used # None /\ used.app = codes[c].app /\ used.scopes = codes[c].scopes
      /\ used.state = "used"
  <2>1. /\ used \in CodeRow /\ used.app = codes[c].app /\ used.scopes = codes[c].scopes
        /\ used.state = "used"
    BY <1>2 DEF CodeRow
  <2> QED BY <2>1
<1>4. row # None /\ row.code = c /\ ~row.revoked
  <2>1. row \in GrantRow
    BY <1>2 DEF GrantRow
  <2>2. row # None
    BY <2>1
  <2>3. row.code = c
    OBVIOUS
  <2>4. ~row.revoked
    OBVIOUS
  <2> QED BY <2>2, <2>3, <2>4
<1>5. new # None /\ new.grant = g /\ new.scopes = codes[c].scopes /\ ~new.rotated
  <2>1. new \in TokenRow
    BY <1>2 DEF Token, TokenRow
  <2>2. new # None
    BY <2>1
  <2>3. new.grant = g /\ new.scopes = codes[c].scopes
    BY DEF Token
  <2>4. ~new.rotated
    BY DEF Token
  <2> QED BY <2>2, <2>3, <2>4
<1>6. /\ old \in SUBSET Granted
      /\ \A x \in Granted : x \in old <=> grants[x].app = codes[c].app /\ ~grants[x].revoked
  BY DEF Live, GrantsOf
<1> HIDE DEF old, row, used, new
<1>7. /\ table \in [Grants -> GrantRow \cup {None}]
      /\ \A h \in Grants : table[h] # None <=> grants[h] # None
      /\ \A h \in Granted : /\ table[h].code = grants[h].code
                            /\ table[h].revoked <=> grants[h].revoked \/ h \in old
  BY <1>6, Revoking DEF IInv
<1> HIDE DEF table
<1>8. /\ grants'[g] = row /\ \A x \in Granted : grants'[x] = table[x]
      /\ Granted' = Granted \cup {g}
  <2>1. grants'[g] = row /\ \A x \in Grants \ {g} : grants'[x] = table[x]
    BY <1>1, <1>7
  <2> QED BY <1>1, <1>4, <1>7, <2>1 DEF Granted
<1>9. /\ codes'[c] = used /\ \A x \in Codes \ {c} : codes'[x] = codes[x]
      /\ Minted' = Minted /\ Minted \subseteq Codes
  <2>1. codes'[c] = used /\ \A x \in Codes \ {c} : codes'[x] = codes[x]
    BY <1>1, <1>2 DEF IInv, TypeOK
  <2> QED BY <1>3, <2>1 DEF Minted
<1>10. /\ tokens'[t] = new /\ \A x \in Issued : tokens'[x] = tokens[x]
       /\ Issued' = Issued \cup {t}
  <2>1. tokens'[t] = new /\ \A x \in Tokens \ {t} : tokens'[x] = tokens[x]
    BY <1>1 DEF IInv, TypeOK
  <2> QED BY <1>1, <1>5, <2>1 DEF Issued
<1>11. /\ \A x \in Granted : /\ grants[x].code \in Minted /\ grants[x].code # c
                             /\ codes[grants[x].code].app = grants[x].app
                             /\ codes[grants[x].code].state # "pending"
       /\ \A x \in Issued : tokens[x].grant \in Granted
  BY <1>1 DEF IInv, Linked
<1>12. \A d \in Codes : d \in rivals <=> \E x \in old : grants[x].code = d
  <2> TAKE d \in Codes
  <2>1. AppOf[c] = codes[c].app /\ AppOf[d] = IF d \in Minted THEN codes[d].app ELSE None
    BY <1>2 DEF AppOf
  <2>2. StageOf[d] = "granted" <=> /\ d \in Minted /\ codes[d].state # "pending"
                                   /\ \E x \in Granted : ~grants[x].revoked /\ grants[x].code = d
    BY Staged DEF StageOf
  <2> QED BY <1>6, <1>11, <2>1, <2>2
<1>13. StageOf[c] = "offered" /\ c \notin rivals
  BY <1>1, <1>2, Staged DEF StageOf
<1>14. Stage(c)' = "granted"
  <2>1. \E x \in Granted' : ~grants'[x].revoked /\ grants'[x].code = c
    BY <1>4, <1>8
  <2>2. c \in Minted' /\ codes'[c].state # "pending"
    BY <1>3, <1>9
  <2> QED BY <2>1, <2>2 DEF Stage, Live
<1>15. \A d \in Codes \ {c} : Stage(d)' = IF d \in rivals THEN "ended" ELSE Stage(d)
  <2> TAKE d \in Codes \ {c}
  <2>1. (d \in Minted)' <=> d \in Minted
    BY <1>9
  <2>2. codes'[d] = codes[d]
    BY <1>9
  <2>3. (\E x \in Live(Granted) : grants[x].code = d)'
            <=> \E x \in Granted : ~grants[x].revoked /\ x \notin old /\ grants[x].code = d
    BY <1>4, <1>7, <1>8 DEF Live
  <2>4. CASE d \in rivals
    <3>1. PICK y \in old : grants[y].code = d
      BY <1>12, <2>4
    <3>2. d \in Minted /\ codes[d].state # "pending"
      BY <1>6, <1>11, <3>1
    <3>3. ~\E x \in Granted : ~grants[x].revoked /\ x \notin old /\ grants[x].code = d
      BY <1>6, <3>1 DEF IInv, OneGrantPerCode
    <3> HIDE DEF rivals
    <3> QED BY <2>1, <2>2, <2>3, <2>4, <3>2, <3>3 DEF Stage
  <2>5. CASE d \notin rivals
    <3>1. (\E x \in Live(Granted) : grants[x].code = d)
              <=> \E x \in Granted : ~grants[x].revoked /\ x \notin old /\ grants[x].code = d
      BY <1>12, <2>5 DEF Live
    <3> HIDE DEF rivals
    <3> QED BY <2>1, <2>2, <2>3, <2>5, <3>1 DEF Stage
  <2> QED BY <2>4, <2>5
<1>16. Refreshable(c)' = codes[c].scopes
  <2>1. \A x \in Issued : grants'[tokens'[x].grant].code # c
    BY <1>7, <1>8, <1>10, <1>11
  <2>2. ~tokens'[t].rotated /\ tokens'[t].scopes = codes[c].scopes /\ grants'[tokens'[t].grant].code = c
    BY <1>4, <1>5, <1>8, <1>10
  <2>3. \A s \in Scopes : s \in Refreshable(c)' <=> s \in codes[c].scopes
    BY <1>10, <2>1, <2>2 DEF Refreshable
  <2>4. Refreshable(c)' \subseteq Scopes /\ codes[c].scopes \subseteq Scopes
    BY <1>2, ScopesAre DEF Refreshable
  <2> QED BY <2>3, <2>4
<1>17. \A d \in Codes \ {c} : Refreshable(d)' = Refreshable(d)
  <2> TAKE d \in Codes \ {c}
  <2>1. \A x \in Issued : /\ grants'[tokens'[x].grant].code = grants[tokens[x].grant].code
                          /\ tokens'[x] = tokens[x]
    BY <1>7, <1>8, <1>10, <1>11
  <2>2. grants'[tokens'[t].grant].code # d
    BY <1>4, <1>5, <1>8, <1>10
  <2>3. \A s \in Scopes : s \in Refreshable(d)' <=> s \in Refreshable(d)
    BY <1>10, <2>1, <2>2 DEF Refreshable
  <2>4. Refreshable(d)' \subseteq Scopes /\ Refreshable(d) \subseteq Scopes
    BY DEF Refreshable
  <2> QED BY <2>3, <2>4
<1>18. AppOf' = AppOf
  BY <1>3, <1>9 DEF AppOf
<1>19. StageOf' = [Approval!EndIn(rivals) EXCEPT ![c] = "granted"]
  <2> HIDE DEF rivals
  <2> QED BY <1>14, <1>15 DEF StageOf, Approval!EndIn
<1>20. ScopesOf' = Approval!NothingIn(rivals)
  <2> HIDE DEF rivals
  <2>1. ScopesOf'[c] = codes[c].scopes /\ ScopesOf[c] = codes[c].scopes
    <3>1. Stage(c) = "offered" /\ c \in Codes
      BY <1>2, <1>13 DEF StageOf
    <3> QED BY <1>14, <1>16, <3>1 DEF ScopesOf
  <2>2. \A d \in Codes \ {c} : ScopesOf'[d] = IF d \in rivals THEN {} ELSE ScopesOf[d]
    BY <1>9, <1>15, <1>17 DEF ScopesOf
  <2>3. \A d \in Codes : ScopesOf'[d] = IF d \in rivals THEN {} ELSE ScopesOf[d]
    BY <1>13, <2>1, <2>2
  <2> QED BY <2>3 DEF ScopesOf, Approval!NothingIn
<1>21. Approval!Grant(c)
  BY <1>13, <1>18, <1>19, <1>20 DEF Approval!Grant
<1> QED BY <1>2, <1>21 DEF Approval!Next

LEMMA ApprovalsStep == IInv /\ [Next]_vars => [Approval!Next]_Approval!vars
<1> SUFFICES ASSUME IInv, [Next]_vars PROVE Approval!Next
  OBVIOUS
<1>1. ASSUME OnlyEnds PROVE Approval!Next
  BY <1>1, EndsEnd DEF Approval!Next
<1>2. ASSUME Quiet PROVE OnlyEnds
  BY <1>2 DEF Quiet, OnlyEnds, Minted, Granted, Issued
<1>3. ASSUME NEW g \in Grants, RevokeOne(g) PROVE OnlyEnds
  BY <1>3, RevokingEnds DEF RevokeOne
<1>4. ASSUME NEW g \in Granted, RevokeGrant(g) PROVE OnlyEnds
  BY <1>4, RevokingEnds DEF RevokeGrant
<1>5. ASSUME NEW u \in Users, RevokeAllForUser(u) PROVE OnlyEnds
  BY <1>5, RevokingEnds DEF RevokeAllForUser, GrantsOf
<1> QED BY <1>1, <1>2, <1>3, <1>4, <1>5, Kinds, ApproveOffers, RedeemGrants, RotateNarrows,
           CodeEndsEnds, TokenEndsEnds DEF IInv

\* The tables of the OAuth server implement the abstract approvals: an approval is
\* granted once, in place of its app's previous one, narrows, and ends for good.
THEOREM ApprovalsImplemented == Spec => ImplementsApprovals
<1>1. Init => Approval!Init
  BY DEF Init, Approval!Init, StageOf, AppOf, ScopesOf, Stage, Minted
<1> QED BY <1>1, ApprovalsStep, GrantsCorrect, PTL DEF Spec, ImplementsApprovals, Approval!Spec
=============================================================================
