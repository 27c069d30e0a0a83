----------------------------- MODULE Categories -----------------------------
(***************************************************************************)
(* The category tree and its administration (admin.service.ts              *)
(* createCategory, updateCategory, archiveCategory).  A move walks up from *)
(* the new parent one query at a time, outside the transaction that writes *)
(***************************************************************************)
EXTENDS FiniteSets

CONSTANTS Categories,  \* rows of Category
          Movers,      \* update requests in flight
          Root         \* parentId null

ASSUME CategoriesAssumption == Root \notin Categories

VARIABLES parent,    \* parentId of the rows that exist
          visible,    \* rows with active = TRUE
          move       \* a request: the category, its new parent, the cursor of
                     \* its walk, and whether nobody else has moved since it began

categoryVars == <<parent, visible, move>>

Rows == DOMAIN parent
Still == [of |-> Root, to |-> Root, cursor |-> Root, alone |-> TRUE]

CategoriesInit == /\ parent = [c \in {} |-> Root]
                  /\ visible = {}
                  /\ move = [m \in Movers |-> Still]

CreateCategory(c, p) ==
    /\ c \in Categories \ Rows /\ p \in Rows \cup {Root}
    /\ parent' = [d \in Rows \cup {c} |-> IF d = c THEN p ELSE parent[d]]
    /\ visible' = visible \cup {c}
    /\ UNCHANGED move

\* Mutant: only the new parent itself is looked at.
MoveBegin_NoWalk(m, c, p) ==
    /\ move[m] = Still /\ c \in Rows /\ p \in (Rows \cup {Root}) \ {c}
    /\ move' = [move EXCEPT ![m] = [of |-> c, to |-> p, cursor |-> Root, alone |-> TRUE]]
    /\ UNCHANGED <<parent, visible>>

\* A category is not its own parent, and the walk starts at the new parent.
MoveBegin(m, c, p) ==
    /\ move[m] = Still /\ c \in Rows /\ p \in (Rows \cup {Root}) \ {c}
    /\ move' = [move EXCEPT ![m] = [of |-> c, to |-> p, cursor |-> p, alone |-> TRUE]]
    /\ UNCHANGED <<parent, visible>>

\* One query of the walk; meeting the category itself is CATEGORY_CYCLE.
MoveWalk(m) == LET q == move[m] IN
    /\ q.cursor # Root
    /\ move' = [move EXCEPT ![m] = IF q.cursor = q.of THEN Still
                                   ELSE [q EXCEPT !.cursor = parent[q.cursor]]]
    /\ UNCHANGED <<parent, visible>>

\* The write, which may also take the category out of the shop or back.
MoveWrite(m) == LET q == move[m] IN
    /\ q # Still /\ q.cursor = Root
    /\ parent' = [parent EXCEPT ![q.of] = q.to]
    /\ visible' \in {visible \cup {q.of}, visible \ {q.of}}
    /\ move' = [n \in Movers |-> IF n = m \/ move[n] = Still THEN Still
                                 ELSE [move[n] EXCEPT !.alone = FALSE]]

\* The category and its children, not their children.
ArchiveCategory(c) ==
    /\ c \in Rows
    /\ visible' = visible \ ({c} \cup {d \in Rows : parent[d] = c})
    /\ UNCHANGED <<parent, move>>

CategoriesNext ==
    \/ \E c \in Categories, p \in Categories \cup {Root} :
          CreateCategory(c, p) \/ \E m \in Movers : MoveBegin(m, c, p)
    \/ \E m \in Movers : MoveWalk(m) \/ MoveWrite(m)
    \/ \E c \in Categories : ArchiveCategory(c)

CategoriesSpec == CategoriesInit /\ [][CategoriesNext]_categoryVars

----------------------------------------------------------------------------
\* No set of categories whose parents all lie in it: the walk up always ends.
Tree(p) == \A S \in SUBSET DOMAIN p : S # {} => \E c \in S : p[c] \notin S

\* A move during which nobody else moved leaves a tree a tree, however its walk
\* interleaves with creations (updateCategory's cycle check).
LoneMoveKeepsTree ==
    [][\A m \in Movers : Tree(parent) /\ move[m].alone /\ MoveWrite(m) => Tree(parent)']_categoryVars
=============================================================================
