----------------------------- MODULE Categories -----------------------------
(***************************************************************************)
(* The category tree of a workspace and the products in it                 *)
(* (packages/db/src/catalog/categories.ts and the category of a product in *)
(* products.ts, called from apps/web/src/features/catalog/actions.ts).     *)
(*                                                                         *)
(* No call runs in a transaction.  Moving a category walks from its new    *)
(* parent to the root with one query per step, archiving counts products   *)
(* and then children, and others write in between.  Nothing checks that a  *)
(* category something is put into is active: forms loaded earlier may name *)
(* an archived one.  Categories are archived, never removed.               *)
(***************************************************************************)
EXTENDS Naturals

CONSTANTS
    CategoryIds,  \* bound: the categories a workspace may create
    ProductIds,   \* bound: the products it may create
    Root,         \* no parent; no category
    Calls,        \* moves and removals in flight at once
    WalkLimit     \* 20: the steps after which the walk gives up

ASSUME CategoriesAssumption ==
    /\ Root \notin CategoryIds
    /\ WalkLimit \in Nat \ {0}

VARIABLES
    exists,    \* the categories created
    active,    \* those not archived
    parent,    \* parent[c]
    place,     \* place[p]: the category of a product, Root when there is none
    call,      \* call[r]: a move on its walk, or a removal that has counted
    raced,     \* history: a move was written whose walk another overtook
    cut,       \* history: a move was written whose walk gave up
    late       \* history: categories in use since their removal counted

treeVars == <<exists, active, parent, place, call, raced, cut, late>>

Parents == CategoryIds \cup {Root}

\* stale is history: since the request began, a move was written (op "move"),
\* something was put into the category ("archive").
Call == [op : {"none", "move", "count", "archive"}, cat : Parents, to : Parents,
         cursor : Parents, depth : 0 .. WalkLimit, stale : BOOLEAN]
NoCall == [op |-> "none", cat |-> Root, to |-> Root, cursor |-> Root, depth |-> 0,
           stale |-> FALSE]

TreeInit ==
    /\ exists = {}
    /\ active = {}
    /\ parent = [c \in CategoryIds |-> Root]
    /\ place = [p \in ProductIds |-> Root]
    /\ call = [r \in Calls |-> NoCall]
    /\ raced = FALSE
    /\ cut = FALSE
    /\ late = {}

ProductsIn(c) == {p \in ProductIds : place[p] = c}
Children(c) == {d \in exists : parent[d] = c}

\* Something is put into c: whoever counts in c no longer knows.
PutInto(c, calls) ==
    /\ call' = [r \in Calls |->
                  IF calls[r].op \in {"count", "archive"} /\ calls[r].cat = c
                  THEN [calls[r] EXCEPT !.stale = TRUE]
                  ELSE calls[r]]
    /\ late' = IF c \in exists \ active THEN late \cup {c} ELSE late

-----------------------------------------------------------------------------
(* Products: the categories they are in. *)

\* createProduct looks the category up, archived or not.
CreateProduct(p, c) ==
    /\ place[p] = Root
    /\ c \in exists
    /\ place' = [place EXCEPT ![p] = c]
    /\ PutInto(c, call)
    /\ UNCHANGED <<exists, active, parent, raced, cut>>

\* updateProduct does not: the foreign key does.
MoveProduct(p, c) ==
    /\ place[p] \notin {Root, c}
    /\ c \in exists
    /\ place' = [place EXCEPT ![p] = c]
    /\ PutInto(c, call)
    /\ UNCHANGED <<exists, active, parent, raced, cut>>

DeleteProduct(p) ==
    /\ place[p] # Root
    /\ place' = [place EXCEPT ![p] = Root]
    /\ UNCHANGED <<exists, active, parent, call, raced, cut, late>>

-----------------------------------------------------------------------------
(* Categories. *)

CreateCategory(c, under) ==
    /\ c \notin exists
    /\ under \in exists \cup {Root}
    /\ exists' = exists \cup {c}
    /\ active' = active \cup {c}
    /\ parent' = [parent EXCEPT ![c] = under]
    /\ PutInto(under, call)
    /\ UNCHANGED <<place, raced, cut>>

StartMove(r, c, to) ==
    /\ call[r].op = "none"
    /\ c \in exists
    /\ to \in exists \cup {Root}
    /\ call' = [call EXCEPT ![r] = [NoCall EXCEPT !.op = "move", !.cat = c, !.to = to,
                                              !.cursor = to]]
    /\ UNCHANGED <<exists, active, parent, place, raced, cut, late>>

Walking(r) ==
    /\ call[r].op = "move"
    /\ call[r].cursor # Root
    /\ call[r].depth < WalkLimit

\* Mutant: only the new parent itself is compared.
WalkOnce(r) ==
    /\ Walking(r)
    /\ call' = [call EXCEPT ![r] =
                  IF call[r].cursor = call[r].cat THEN NoCall
                  ELSE [call[r] EXCEPT !.cursor = Root, !.depth = @ + 1]]
    /\ UNCHANGED <<exists, active, parent, place, raced, cut, late>>

\* One turn of the loop of assertNoCycle: a category met on its own way to
\* the root is refused, otherwise the parent is read.
Walk(r) ==
    /\ Walking(r)
    /\ call' = [call EXCEPT ![r] =
                  IF call[r].cursor = call[r].cat THEN NoCall
                  ELSE [call[r] EXCEPT !.cursor = parent[call[r].cursor], !.depth = @ + 1]]
    /\ UNCHANGED <<exists, active, parent, place, raced, cut, late>>

\* The walk is over, at the root or not; the row is written by id.
WriteMove(r) ==
    LET c == call[r].cat
        others == [q \in Calls |->
                     IF q = r THEN NoCall
                     ELSE [call[q] EXCEPT !.stale = @ \/ call[q].op = "move"]]
    IN  /\ call[r].op = "move"
        /\ ~Walking(r)
        /\ parent' = [parent EXCEPT ![c] = call[r].to]
        /\ raced' = (raced \/ call[r].stale)
        /\ cut' = (cut \/ call[r].cursor # Root)
        /\ PutInto(call[r].to, others)
        /\ UNCHANGED <<exists, active, place>>

\* archiveCategory counts the products ...
StartArchive(r, c) ==
    /\ call[r].op = "none"
    /\ c \in exists
    /\ ProductsIn(c) = {}
    /\ call' = [call EXCEPT ![r] = [NoCall EXCEPT !.op = "count", !.cat = c]]
    /\ UNCHANGED <<exists, active, parent, place, raced, cut, late>>

\* Mutant: sub-categories are not counted.
SkipChildren(r) ==
    /\ call[r].op = "count"
    /\ call' = [call EXCEPT ![r].op = "archive"]
    /\ UNCHANGED <<exists, active, parent, place, raced, cut, late>>

\* ... then the sub-categories, archived ones too ...
CountChildren(r) ==
    /\ call[r].op = "count"
    /\ call' = [call EXCEPT ![r] = IF Children(call[r].cat) = {}
                                 THEN [call[r] EXCEPT !.op = "archive"]
                                 ELSE NoCall]
    /\ UNCHANGED <<exists, active, parent, place, raced, cut, late>>

\* ... and archives what is still active.
WriteArchive(r) ==
    LET c == call[r].cat
    IN  /\ call[r].op = "archive"
        /\ active' = active \ {c}
        /\ late' = IF c \in active /\ call[r].stale THEN late \cup {c} ELSE late
        /\ call' = [call EXCEPT ![r] = NoCall]
        /\ UNCHANGED <<exists, parent, place, raced, cut>>

TreeNext ==
    \/ \E p \in ProductIds :
        \/ \E c \in CategoryIds : CreateProduct(p, c) \/ MoveProduct(p, c)
        \/ DeleteProduct(p)
    \/ \E c \in CategoryIds, under \in Parents : CreateCategory(c, under)
    \/ \E r \in Calls :
        \/ \E c \in CategoryIds, to \in Parents : StartMove(r, c, to)
        \/ Walk(r)
        \/ WriteMove(r)
        \/ \E c \in CategoryIds : StartArchive(r, c)
        \/ CountChildren(r)
        \/ WriteArchive(r)

TreeSpec == TreeInit /\ [][TreeNext]_treeVars

-----------------------------------------------------------------------------
(* Properties. *)

TreeTypeOK ==
    /\ active \subseteq exists
    /\ exists \subseteq CategoryIds
    /\ parent \in [CategoryIds -> Parents]
    /\ place \in [ProductIds -> Parents]
    /\ call \in [Calls -> Call]
    /\ raced \in BOOLEAN
    /\ cut \in BOOLEAN
    /\ late \subseteq CategoryIds

\* Who climbs from a category in a cycle never leaves the cycle.
Acyclic ==
    \A S \in SUBSET CategoryIds : (\A c \in S : parent[c] \in S) => S = {}

\* A category may not become its own ancestor (assertNoCycle), as long as no
\* other move is written during a walk that leads to a write, and the tree is
\* not too deep for the walk.
AncestryIsSound == ~raced /\ ~cut => Acyclic

\* Categories with products or children are not archived (archiveCategory):
\* an archived one is empty, but for what was put in after it was counted.
ArchivedIsEmpty ==
    \A c \in exists \ active : c \notin late => ProductsIn(c) = {} /\ Children(c) = {}
=============================================================================
