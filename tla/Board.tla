------------------------------- MODULE Board -------------------------------
(***************************************************************************)
(* The board of a project (services/board.service.ts and boardOrder.ts):   *)
(* columns in an order, cards in an order in each column.  An order is a   *)
(* column of integers that every operation rewrites; rows whose integers   *)
(* are equal come in any order.  Every operation is one transaction in one *)
(* turn of the event loop.                                                 *)
(***************************************************************************)
EXTENDS FiniteSets, Integers, Sequences, SequencesExt

CONSTANTS
    Projects, Columns, Cards,   \* ids; a project is there from the start
    NoColumn, NoProject,
    MaxIndex,                   \* largest index a caller drops a card at
    MaxListed                   \* longest list of columns a caller sends

ASSUME NoColumnAssumption == NoColumn \notin Columns /\ NoProject \notin Projects
ASSUME MaxIndexAssumption == MaxIndex \in Nat /\ MaxListed \in Nat

VARIABLES
    project,        \* projects that are there
    column,         \* [Columns -> its project, position]
    card,           \* [Cards -> its column, project, position]
    doubled         \* projects whose columns were reordered by a list that
                    \* names one twice (history)

boardVars == <<project, column, card, doubled>>

NoColumnRow == [project |-> NoProject, position |-> 0]
NoCardRow == [column |-> NoColumn, project |-> NoProject, position |-> 0]

BoardTypeOK ==
    /\ project \subseteq Projects
    /\ column \in [Columns -> [project: Projects \cup {NoProject}, position: Nat]]
    /\ card \in [Cards -> [column: Columns \cup {NoColumn},
                           project: Projects \cup {NoProject}, position: Nat]]
    /\ doubled \subseteq Projects

BoardInit ==
    /\ project = Projects
    /\ column = [k \in Columns |-> NoColumnRow]
    /\ card = [c \in Cards |-> NoCardRow]
    /\ doubled = {}

ColumnsOf(p) == {k \in Columns : column[k].project = p}
CardsIn(k) == {c \in Cards : card[c].column = k}

ColumnAt == [k \in Columns |-> column[k].position]
CardAt == [c \in Cards |-> card[c].position]

----------------------------------------------------------------------------
(* Orders.                                                                 *)

\* sequentialPositions of the rows of S, in an order the positions at allow: 0 to n - 1.
Renumberings(S, at) ==
    {f \in [S -> 0..(Cardinality(S) - 1)] :
        \A a, b \in S : a # b => f[a] # f[b] /\ (at[a] < at[b] => f[a] < f[b])}

Least(a, b) == IF a < b THEN a ELSE b

MoveUnclamped(S, at, x, index) ==    \* slip: the index is taken as it comes
    {f \in [S \cup {x} -> 0..(Cardinality(S \ {x}) + index)] :
        /\ f[x] = index
        /\ \A a, b \in S \cup {x} : a # b => f[a] # f[b]
        /\ \A a, b \in S \ {x} : at[a] < at[b] => f[a] < f[b]}

\* moveWithinList: the others keep their order around x, whose index is clamped.
MoveWithinList(S, at, x, index) ==
    {f \in [S \cup {x} -> 0..Cardinality(S \ {x})] :
        /\ f[x] = Least(index, Cardinality(S \ {x}))
        /\ \A a, b \in S \cup {x} : a # b => f[a] # f[b]
        /\ \A a, b \in S \ {x} : at[a] < at[b] => f[a] < f[b]}

\* The places of a caller's list that name a column of the board.
Listed(owned, ids) == {i \in DOMAIN ids : ids[i] \in owned}

NamesTwice(owned, ids) == \E i, j \in Listed(owned, ids) : i # j /\ ids[i] = ids[j]

\* The positions reorderColumns writes: the list without what the project does
\* not own, then, in any order, what the list left out.  A column named twice is
\* written twice: the last place stays.
Reordered(owned, ids) ==
    LET listed == Listed(owned, ids)
        rest   == {k \in owned : \A i \in listed : ids[i] # k}
    IN  {f \in [owned -> 0..(Cardinality(listed) + Cardinality(rest) - 1)] :
            /\ \A i \in listed : (\A j \in listed : j > i => ids[j] # ids[i]) =>
                  f[ids[i]] = Cardinality({j \in listed : j < i})
            /\ \A a, b \in rest : f[a] >= Cardinality(listed) /\ (a # b => f[a] # f[b])}

----------------------------------------------------------------------------
(* Columns.                                                                *)

CreateColumn(k, p) ==
    /\ p \in project /\ column[k] = NoColumnRow
    /\ column' = [column EXCEPT ![k] = [project |-> p, position |-> Cardinality(ColumnsOf(p))]]
    /\ UNCHANGED <<project, card, doubled>>

Place(positions) ==
    column' = [k \in Columns |-> IF k \in DOMAIN positions
                                 THEN [column[k] EXCEPT !.position = positions[k]] ELSE column[k]]

DeleteColumnGap(k) ==           \* slip: the columns behind it are not renumbered
    /\ column[k].project # NoProject
    /\ card' = [c \in Cards |-> IF c \in CardsIn(k) THEN NoCardRow ELSE card[c]]
    /\ column' = [column EXCEPT ![k] = NoColumnRow]
    /\ UNCHANGED <<project, doubled>>

DeleteColumn(k) ==
    LET p == column[k].project IN
    /\ p # NoProject
    /\ card' = [c \in Cards |-> IF c \in CardsIn(k) THEN NoCardRow ELSE card[c]]
    /\ \E f \in Renumberings(ColumnsOf(p) \ {k}, ColumnAt) :
          column' = [x \in Columns |->
                        CASE x = k -> NoColumnRow
                          [] x \in DOMAIN f -> [column[x] EXCEPT !.position = f[x]]
                          [] OTHER -> column[x]]
    /\ UNCHANGED <<project, doubled>>

ReorderColumns(p, ids) ==
    /\ p \in project
    /\ \E f \in Reordered(ColumnsOf(p), ids) : Place(f)
    /\ doubled' = IF NamesTwice(ColumnsOf(p), ids) THEN doubled \cup {p} ELSE doubled
    /\ UNCHANGED <<project, card>>

----------------------------------------------------------------------------
(* Cards.                                                                  *)

CreateCard(c, k) ==
    /\ card[c] = NoCardRow /\ column[k].project # NoProject
    /\ card' = [card EXCEPT ![c] = [column |-> k, project |-> column[k].project,
                                    position |-> Cardinality(CardsIn(k))]]
    /\ UNCHANGED <<project, column, doubled>>

DeleteCard(c) ==
    /\ card[c] # NoCardRow
    /\ \E f \in Renumberings(CardsIn(card[c].column) \ {c}, CardAt) :
          card' = [x \in Cards |->
                      CASE x = c -> NoCardRow
                        [] x \in DOMAIN f -> [card[x] EXCEPT !.position = f[x]]
                        [] OTHER -> card[x]]
    /\ UNCHANGED <<project, column, doubled>>

\* The column the card goes to is renumbered around it, then the one it left.
MoveCard(c, k, index) ==
    LET left == CardsIn(card[c].column) \ ({c} \cup CardsIn(k)) IN
    /\ card[c] # NoCardRow
    /\ column[k].project = card[c].project
    /\ \E f \in MoveWithinList(CardsIn(k), CardAt, c, index), g \in Renumberings(left, CardAt) :
          card' = [x \in Cards |->
                      CASE x = c -> [card[x] EXCEPT !.column = k, !.position = f[x]]
                        [] x # c /\ x \in DOMAIN f -> [card[x] EXCEPT !.position = f[x]]
                        [] x \in DOMAIN g -> [card[x] EXCEPT !.position = g[x]]
                        [] OTHER -> card[x]]
    /\ UNCHANGED <<project, column, doubled>>

\* A project without invoices goes, with its board.
DeleteProject(p) ==
    /\ p \in project
    /\ project' = project \ {p}
    /\ card' = [c \in Cards |-> IF card[c].project = p THEN NoCardRow ELSE card[c]]
    /\ column' = [k \in Columns |-> IF k \in ColumnsOf(p) THEN NoColumnRow ELSE column[k]]
    /\ UNCHANGED doubled

BoardNext ==
    \/ \E p \in Projects :
          \/ DeleteProject(p)
          \/ \E k \in Columns : CreateColumn(k, p)
          \/ \E ids \in SeqOf(Columns, MaxListed) : ReorderColumns(p, ids)
    \/ \E k \in Columns : DeleteColumn(k)
    \/ \E c \in Cards :
          \/ DeleteCard(c)
          \/ \E k \in Columns : CreateCard(c, k) \/ \E index \in 0..MaxIndex : MoveCard(c, k, index)

BoardSpec == BoardInit /\ [][BoardNext]_boardVars

----------------------------------------------------------------------------
(* Properties.                                                             *)

\* The cards of a column are numbered from 0 without a gap, whatever was
\* created, moved and deleted, and a card is of its column's project, which
\* no move can leave: it is deleted with it.
CardsInOrder ==
    /\ \A k \in Columns : {CardAt[c] : c \in CardsIn(k)} = 0..(Cardinality(CardsIn(k)) - 1)
    /\ \A c \in Cards : card[c] # NoCardRow =>
          card[c].project = column[card[c].column].project /\ card[c].project \in project

\* So are the columns of a board, unless a reorder named one of them twice:
\* that leaves a gap, and the next column made ties with the last one.
ColumnsInOrder ==
    \A p \in Projects \ doubled :
        {ColumnAt[k] : k \in ColumnsOf(p)} = 0..(Cardinality(ColumnsOf(p)) - 1)
=============================================================================
