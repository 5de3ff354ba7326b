------------------------------ MODULE RolePage ------------------------------
(***************************************************************************)
(* The page of the roles, roleindex.jsp: a grid of roles, and a tree of    *)
(* functions that is loaded for the role that is selected and whose ticks  *)
(* are saved for the role that is selected then.  With the server's side:  *)
(* TreeUtil ticks the tree, saveRoleFunc replaces what a role has.         *)
(***************************************************************************)
EXTENDS Integers, Sequences, SequencesExt

CONSTANTS
    Nodes, Root, NoNode, Below,     \* the functions, as a tree
    Roles, NoRole,
    Owned,      \* functions of the user of the page, who is offered no other
    Grants,     \* what a role may have at first
    MaxAsked    \* bound: the number of trees that are asked for

VARIABLES
    data,       \* the tree
    page        \* the page, its requests and the rows of the server

vars == <<data, page>>

\* The trees come whole, and are asked for in order.
Tr == INSTANCE Tree WITH Lazy <- {}, Folded <- {}, Ticked <- {}, Added <- {},
                         Cascades <- BOOLEAN, MaxEdits <- 0

Shown == [n \in Nodes \cup {Root} |-> SelectSeq(Below[n], LAMBDA c : c \in Owned)]
Leaf(n) == Shown[n] = <<>>

\* TreeUtil: with cascadeCheck only leaves are ticked, what is above follows.
\* Faulty: every function the role has is ticked.
TicksAll(cascade, has) == has
Ticks(cascade, has) == IF cascade THEN {n \in has : Leaf(n)} ELSE has

\* Where the ticks of the leaves tell the ticks above them.
Regular(has) == \A n \in Owned : ~Leaf(n) => (n \in has <=> \E c \in has : n \in
                    ToSet(Tr!Above([kids |-> Shown], c)))

Init ==
    /\ data = Tr!EmptyTree
    /\ \E g \in [Roles -> Grants] :
         page = [has |-> g, role |-> NoRole, cascade |-> TRUE, option |-> TRUE, nr |-> 0,
                 net |-> {}, listing |-> TRUE, of |-> [role |-> NoRole, cascade |-> TRUE, has |-> {}],
                 touched |-> FALSE, mixed |-> {}]

-----------------------------------------------------------------------------
\* loadRoleFuncTree: the option cascadeCheck changes at once, the nodes do when
\* the answer is there.
\* Faulty: a tree that is under way is not asked for again.
AskedOnce(p, r) ==
    IF p.net # {} THEN [p EXCEPT !.role = r]
    ELSE [p EXCEPT !.role = r, !.option = p.cascade, !.nr = @ + 1,
                   !.net = {[nr |-> p.nr + 1, role |-> r, cascade |-> p.cascade, of |-> NoRole, has |-> {}]}]
Asked(p, r) ==
    [p EXCEPT !.role = r, !.option = p.cascade, !.nr = @ + 1,
              !.net = @ \cup {[nr |-> p.nr + 1, role |-> r, cascade |-> p.cascade,
                               of |-> NoRole, has |-> {}]},
              !.mixed = @ \cup (IF p.net # {} THEN {"overlap"} ELSE {})]

\* A row of the grid is clicked, or selected when the grid is loaded.
SelectRow(r) ==
    /\ ~page.listing /\ page.nr < MaxAsked
    /\ page' = Asked(page, r) /\ UNCHANGED data
Listed(r) ==
    /\ page.listing /\ page.nr < MaxAsked
    /\ page' = Asked([page EXCEPT !.listing = FALSE], r) /\ UNCHANGED data

ConfigCascade ==
    LET p == [page EXCEPT !.cascade = ~@]
    IN  /\ page.nr < MaxAsked
        /\ page' = IF page.role = NoRole THEN p ELSE Asked(p, page.role)
        /\ UNCHANGED data

\* queryRole empties the tree at once; the row stays selected until the grid is
\* loaded.
QueryRole ==
    /\ ~page.listing
    /\ data' = Tr!EmptyTree
    /\ page' = [page EXCEPT !.listing = TRUE, !.of.role = NoRole, !.touched = FALSE]

ClickBox(n) ==
    /\ n \in Tr!In(data)
    /\ data' = Tr!Check(data, n, IF data.box[n] = 1 THEN 0 ELSE 1, page.option)
    /\ page' = [page EXCEPT !.touched = TRUE]

-----------------------------------------------------------------------------
\* queryRoleFuncTree reads what the role has.
Read(r) ==
    /\ r.of = NoRole
    /\ page' = [page EXCEPT !.net = (@ \ {r}) \cup
                    {[r EXCEPT !.of = r.role, !.has = page.has[r.role] \cap Owned]}]
    /\ UNCHANGED data

Answer(r) ==
    LET f == [Tr!Forest(Shown[Root], Ticks(r.cascade, r.has)) EXCEPT !.kids = [n \in Nodes |-> Shown[n]]]
    IN  /\ r.of # NoRole
        /\ data' = Tr!Load(data, Root, f, FALSE, page.option)
        /\ page' = [page EXCEPT !.net = @ \ {r}, 
                        !.of = [role |-> r.role, cascade |-> r.cascade, has |-> r.has],
                        !.touched = r.cascade # page.option]

Fail(r) ==
    /\ page' = [page EXCEPT !.net = @ \ {r}, !.mixed = @ \cup {"failed"}]
    /\ UNCHANGED data

\* save posts the boxes that are not empty, for the row that is selected, and
\* saveRoleFunc inserts what is missing and deletes what is not posted.
Save ==
    /\ page.role # NoRole
    /\ page' = [page EXCEPT !.has[page.role] = Tr!CheckedExt(data)]
    /\ UNCHANGED data

Next ==
    \/ \E r \in Roles : SelectRow(r) \/ Listed(r)
    \/ ConfigCascade \/ QueryRole \/ Save
    \/ \E n \in Nodes : ClickBox(n)
    \/ \E r \in page.net : Read(r) \/ Answer(r) \/ Fail(r)

Spec == Init /\ [][Next]_vars

-----------------------------------------------------------------------------
TypeOK ==
    /\ Tr!In(data) \subseteq Owned /\ data.box \in [Nodes -> 0 .. 2]
    /\ page.has \in [Roles -> SUBSET Nodes]
    /\ page.role \in Roles \cup {NoRole} /\ page.of.role \in Roles \cup {NoRole}
    /\ page.nr \in 0 .. MaxAsked

\* When nothing is under way, the tree is the one of the role that is selected,
\* for which its ticks will be saved; unless a tree could not be loaded, or one
\* was asked for before another had come.
TreeOfSelectedRole ==
    page.net = {} /\ ~page.listing /\ page.mixed = {} => page.of.role = page.role

\* Saving the tree of a role as it came leaves the role what it had of the
\* user's functions; unless it had them in a way that ticks do not show.
UntouchedSave ==
    /\ Save /\ page.of.role = page.role /\ ~page.touched
    /\ page.of.cascade => Regular(page.of.has)
UntouchedTreeRestores ==
    [][UntouchedSave => page'.has[page.role] \cap Owned = page.of.has]_vars

=============================================================================
