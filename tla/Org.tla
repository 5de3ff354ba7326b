--------------------------------- MODULE Org ---------------------------------
(***************************************************************************)
(* The tree of organisations and the users in it: sys_org as               *)
(* OrgServiceImpl and OrgDao use it, the column orgID of sys_usr, and the  *)
(* trees TreeUtil.setTree makes of the rows.  A request starts when its    *)
(* page is shown, which fixes the organisation and the parent, and runs    *)
(* one transaction: each query is a step that sees what is committed, and  *)
(* what the method writes is sent when it commits.                         *)
(***************************************************************************)
EXTENDS Integers, FiniteSets, Functions

CONSTANTS
    OrgIDs, OrgCods, OrgNams, UsrIDs,
    ROOTNODE,   \* EAMSROOT, the parent of organisations at the top
    None,
    SeqNOs,     \* order numbers a form may send
    NoNumber,
    ParentOf,   \* organisations there are when the program starts: their parents
    OrgOf,      \* and users: their organisations
    MaxAsked    \* bound: the number of requests, two of them at a time

VARIABLES
    data,       \* orgs: the rows of sys_org; of: the organisation of each user;
                \* history: "by" and putBy, who gave a parent or an organisation
    page        \* the open requests; history: which transactions overlapped, who
                \* deleted an organisation, what was deleted under each page

vars == <<data, page>>

\* What there is when the program starts hangs together.
OrgAssumption ==
    /\ MaxAsked \in Nat
    /\ IsFiniteSet(OrgIDs) /\ ROOTNODE \notin OrgIDs
    /\ DOMAIN ParentOf \subseteq OrgIDs
    /\ \A o \in DOMAIN ParentOf : ParentOf[o] \in (DOMAIN ParentOf \ {o}) \cup {ROOTNODE}
    /\ \A u \in UsrIDs \cap DOMAIN OrgOf : OrgOf[u] \in DOMAIN ParentOf
    /\ ExistsInjection(DOMAIN ParentOf, OrgCods) /\ ExistsInjection(DOMAIN ParentOf, OrgNams)

Init ==
    /\ LET cods == CHOOSE f \in Injection(DOMAIN ParentOf, OrgCods) : TRUE
           nams == CHOOSE f \in Injection(DOMAIN ParentOf, OrgNams) : TRUE
       IN  data = [orgs |-> {[id |-> o, cod |-> cods[o], nam |-> nams[o], par |-> ParentOf[o],
                              seq |-> 1, by |-> 0] : o \in DOMAIN ParentOf},
                   of |-> [u \in UsrIDs |-> IF u \in DOMAIN OrgOf THEN OrgOf[u] ELSE None],
                   putBy |-> [u \in UsrIDs |-> 0]]
    /\ page = [nr |-> 0, open |-> {}, mates |-> [n \in 0 .. MaxAsked |-> {}],
               deleted |-> [o \in OrgIDs |-> 0], under |-> [n \in 0 .. MaxAsked |-> {}]]

IDs == {x.id : x \in data.orgs}
Sub(p) == {x \in data.orgs : x.par = p}

-----------------------------------------------------------------------------
(* setTree.  With a row for the root the tree hangs below it; without one,  *)
(* and with no organisation at the top, the rows whose parents are missing  *)
(* come first, and get their parents back in the end.                       *)

\* Faulty: rows whose parents are missing are first ones in any case.
FirstNodesAll(withRoot) ==
    {x \in data.orgs : x.par = ROOTNODE \/ x.par \notin IDs}
FirstNodes(withRoot) ==
    IF withRoot \/ Sub(ROOTNODE) # {} THEN Sub(ROOTNODE)
    ELSE {x \in data.orgs : x.par \notin IDs}

\* sortMenuList goes down from the first nodes.
SetTree(withRoot) ==
    LET f[n \in 0 .. Cardinality(data.orgs)] ==
            IF n = 0 THEN {x.id : x \in FirstNodes(withRoot)}
            ELSE f[n - 1] \cup {x.id : x \in UNION {Sub(o) : o \in f[n - 1]}}
    IN  {o \in IDs : o \in f[Cardinality(data.orgs)]}

-----------------------------------------------------------------------------
(* Pages and requests.                                                      *)

Seqs == SeqNOs \cup {NoNumber}
Fresh == {o \in OrgIDs \ IDs : page.deleted[o] = 0 /\ \A r \in page.open : r.f.id # o}

\* A new organisation goes beside or below the one selected; one that is modified
\* anywhere in the tree with its root; the page deletes what has none below it.
Forms ==
    LET shown == SetTree(FALSE)
    IN  [op : {"addOrg"}, id : Fresh, par : shown \cup {ROOTNODE},
         cod : OrgCods, nam : OrgNams, seq : Seqs]
        \cup [op : {"modifyOrg"}, id : shown, par : SetTree(TRUE) \cup {ROOTNODE},
              cod : OrgCods, nam : OrgNams, seq : Seqs]
        \cup [op : {"delOrg"}, id : {o \in shown : Sub(o) = {}}, par : {None},
              cod : {None}, nam : {None}, seq : {NoNumber}]
        \cup [op : {"saveUsr"}, id : UsrIDs, par : shown,
              cod : {None}, nam : {None}, seq : {NoNumber}]

First(f) == IF f.op = "delOrg" THEN "usr" ELSE IF f.op = "saveUsr" THEN "look" ELSE "cod"
Ask ==
    /\ page.nr < MaxAsked /\ Cardinality(page.open) < 2
    /\ \E f \in Forms :
        page' = [page EXCEPT !.nr = @ + 1,
                    !.open = @ \cup {[nr |-> page.nr + 1, f |-> f, at |-> First(f)]}]
    /\ UNCHANGED data

Others(r) == {o \in page.open : o.nr # r.nr}
Begun(r)  == {o.nr : o \in {x \in Others(r) : x.at # First(x.f)}}
Met(r) ==
    [page EXCEPT !.open = Others(r),
        !.mates = [n \in DOMAIN @ |-> CASE n = r.nr       -> @[n] \cup Begun(r)
                                        [] n \in Begun(r) -> @[n] \cup {r.nr}
                                        [] OTHER          -> @[n]]]
GoOrFail(r, ok, next) ==
    /\ page' = IF ok THEN [Met(r) EXCEPT !.open = @ \cup {[r EXCEPT !.at = next]}] ELSE Met(r)
    /\ UNCHANGED data

-----------------------------------------------------------------------------
(* Statements.                                                              *)

\* Codes and names of others: of any for a new one, which has no ID yet.
FindCod(r) ==
    /\ r.at = "cod"
    /\ GoOrFail(r, \A x \in data.orgs : x.cod = r.f.cod => x.id = r.f.id, "nam")

\* Only the organisation itself is refused as its parent.
\* Faulty: so is nothing.
MayBeParentAny(f) == TRUE
MayBeParent(f) == f.op = "addOrg" \/ f.par # f.id
FindNam(r) ==
    /\ r.at = "nam"
    /\ GoOrFail(r, (\A x \in data.orgs : x.nam = r.f.nam => x.id = r.f.id) /\ MayBeParent(r.f),
                IF r.f.op = "addOrg" /\ r.f.seq = NoNumber THEN "seq" ELSE "save")

FindSeq(r) ==
    /\ r.at = "seq"
    /\ GoOrFail([r EXCEPT !.f.seq = Cardinality(Sub(r.f.par)) + 1], TRUE, "save")

\* delOrg looks for users and then for organisations below.
\* Faulty: for users only.
NobodyUsr(f, what) == what = "usr" => \A u \in UsrIDs : data.of[u] # f.id
Nobody(f, what) ==
    IF what = "usr" THEN \A u \in UsrIDs : data.of[u] # f.id ELSE Sub(f.id) = {}
FindUsr(r) == r.at = "usr" /\ GoOrFail(r, Nobody(r.f, "usr"), "sub")
FindSub(r) == r.at = "sub" /\ GoOrFail(r, Nobody(r.f, "sub"), "save")

\* addUsr and modifyUsr look for the user's code and name (UsrAccount).
FindUsrCod(r) == r.at = "look" /\ GoOrFail(r, TRUE, "save")

Row(r) ==
    [id |-> r.f.id, cod |-> r.f.cod, nam |-> r.f.nam, par |-> r.f.par, seq |-> r.f.seq,
     by |-> r.nr]
Commit(r, orgs, deleted) ==
    /\ data' = [data EXCEPT !.orgs = orgs]
    /\ page' = [Met(r) EXCEPT
                    !.deleted = [o \in OrgIDs |-> IF o \in deleted THEN r.nr ELSE @[o]],
                    !.under = [n \in DOMAIN @ |->
                        IF \E o \in Others(r) : o.nr = n /\ o.at = First(o.f)
                        THEN @[n] \cup deleted ELSE @[n]]]

\* A row that is gone cannot be updated, nor deleted again.
SaveOrg(r) ==
    /\ r.at = "save" /\ r.f.op \in {"addOrg", "modifyOrg"}
    /\ LET old == {x \in data.orgs : x.id = r.f.id}
       IN  IF r.f.op = "modifyOrg" /\ old = {} THEN GoOrFail(r, FALSE, "save")
           ELSE Commit(r, (data.orgs \ old) \cup {Row(r)}, {})
DelOrg(r) ==
    /\ r.at = "save" /\ r.f.op = "delOrg"
    /\ Commit(r, {x \in data.orgs : x.id # r.f.id}, {r.f.id} \cap IDs)
SaveUsr(r) ==
    /\ r.at = "save" /\ r.f.op = "saveUsr"
    /\ data' = [data EXCEPT !.of[r.f.id] = r.f.par, !.putBy[r.f.id] = r.nr]
    /\ page' = Met(r)

Run(r) ==
    \/ FindCod(r)
    \/ FindNam(r)
    \/ FindSeq(r)
    \/ FindUsr(r)
    \/ FindSub(r)
    \/ FindUsrCod(r)
    \/ SaveOrg(r)
    \/ DelOrg(r)
    \/ SaveUsr(r)
Next == Ask \/ \E r \in page.open : Run(r)

Spec == Init /\ [][Next]_vars

-----------------------------------------------------------------------------
OrgRow ==
    [id : OrgIDs, cod : OrgCods, nam : OrgNams, par : OrgIDs \cup {ROOTNODE},
     seq : Seqs \cup 1 .. Cardinality(OrgIDs) + 1, by : 0 .. MaxAsked]

\* Rows are of their types, and no two have one ID.
TypeOK ==
    /\ data.orgs \subseteq OrgRow
    /\ Cardinality(IDs) = Cardinality(data.orgs)
    /\ data.of \in [UsrIDs -> OrgIDs \cup {None}]
    /\ Cardinality(page.open) <= 2

Overlapped(p, q) == p \in page.mates[q]

\* Two organisations with one code or one name come only from transactions that
\* overlapped.
TwinsOnlyFromOverlap ==
    \A x, y \in data.orgs :
        x.cod = y.cod \/ x.nam = y.nam => x = y \/ Overlapped(x.by, y.by)

\* What has an organisation that is gone, a user or one below it, was put there
\* while it was deleted, or from a page that was shown before: the methods look
\* for what is left in an organisation but not for the one they are given.
Lost(o, by) == Overlapped(page.deleted[o], by) \/ o \in page.under[by]
NobodyLeftBehind ==
    /\ \A x \in data.orgs : x.par \in IDs \cup {ROOTNODE} \/ Lost(x.par, x.by)
    /\ \A u \in UsrIDs : data.of[u] \in IDs \cup {None} \/ Lost(data.of[u], data.putBy[u])

\* The organisations above one, with a parent that is missing at the end.
Above(o) ==
    LET up(s) == s \cup {x.par : x \in {y \in data.orgs : y.id \in s}}
        f[n \in 0 .. Cardinality(data.orgs) + 1] == IF n = 0 THEN {o} ELSE up(f[n - 1])
    IN  f[Cardinality(data.orgs) + 1] \ {o}

\* The tree shows what the parents lead from to the top, and nothing of a cycle
\* of parents, nor below a missing one; only when there is nothing at the top
\* those below missing ones.  No organisation is directly below itself.
TreeShowsReachable ==
    /\ SetTree(TRUE) = {o \in IDs : ROOTNODE \in Above(o)}
    /\ SetTree(FALSE) = IF Sub(ROOTNODE) # {} THEN SetTree(TRUE)
                        ELSE {o \in IDs : ~(Above(o) \subseteq IDs)}
    /\ \A x \in data.orgs : x.par # x.id

=============================================================================
