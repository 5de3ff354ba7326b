------------------------------ MODULE RoleAuth ------------------------------
(***************************************************************************)
(* Roles, the users who hold them and the functions they grant: the tables *)
(* sys_role, sys_usr_role and sys_role_func as RoleServiceImpl, RoleDao,   *)
(* UserServiceImpl and UserDao use them.                                   *)
(*                                                                         *)
(* A request is one HTTP request of an administrator.  It starts when the  *)
(* page it is sent from is shown (that is when its parameters are fixed)   *)
(* and runs one service method, which is one database transaction          *)
(* (app-config.xml): every SQL statement is a step of its own, reads see   *)
(* what is committed plus the transaction's own work (Oracle's READ        *)
(* COMMITTED), a DELETE waits for the rows that another open transaction   *)
(* has deleted, and what a transaction wrote appears to the others when it *)
(* commits.  An exception rolls the transaction back.                      *)
(***************************************************************************)
CONSTANTS
    UsrIDs,     \* users
    FuncIDs,    \* functions: menu entries and buttons, a fixed table
    RoleIDs,    \* role IDs, the ones not handed out yet included
    RoleNams,   \* role names
    Reqs,       \* requests
    SUPERROLE,  \* the ID of the built-in role, which no page offers
    Unborn,     \* state of an ID that no sys_role row has used yet
    Deleted,    \* state of the ID of a role that was deleted
    Seed        \* "inserted by" of the rows present when the system starts

ASSUME RoleAuthAssumption ==
    /\ UsrIDs \cap FuncIDs = {}
    /\ SUPERROLE \in RoleIDs
    /\ {Unborn, Deleted} \cap RoleNams = {}
    /\ Unborn # Deleted
    /\ Seed \notin Reqs

VARIABLES
    roleNam,    \* sys_role: the name of each role, or Unborn or Deleted
    rows,       \* sys_usr_role and sys_role_func: see Row
    pc,         \* what each request does next
    form,       \* the parameters each request was sent with
    todo,       \* the statements left in the loop of a request
    seen,       \* the roles saveRefer has read from the user it copies
    ins,        \* rows inserted by each open transaction
    del,        \* rows deleted (and so locked) by each open transaction
    dropped,    \* sys_role rows deleted by each open transaction
    mates,      \* history: the requests whose transactions overlapped with each
    gone        \* history: the roles that were deleted under each request

tables == <<roleNam, rows>>
txn    == <<todo, seen, ins, del, dropped>>
vars   == <<roleNam, rows, pc, form, todo, seen, ins, del, dropped, mates, gone>>

-----------------------------------------------------------------------------
(* Types.                                                                   *)

\* A row of sys_usr_role ("of" is a user) or of sys_role_func ("of" is a
\* function).  "by" is the request that inserted it and stands for the row's
\* PK: no request inserts two rows with the same role and "of".
Row == [role : RoleIDs, of : UsrIDs \cup FuncIDs, by : Reqs \cup {Seed}]

NoForm == [op |-> "none"]
Form ==
    [op : {"addUsrRole", "delUsrRole"}, usr : UsrIDs, role : RoleIDs]
        \cup [op : {"saveRefer"}, usr : UsrIDs, usrs : SUBSET UsrIDs]
        \cup [op : {"delRoleFnc"}, role : RoleIDs]
        \cup [op : {"saveRoleFunc"}, role : RoleIDs, funcs : SUBSET FuncIDs]
        \cup [op : {"addRole"}, role : RoleIDs, nam : RoleNams]
        \cup [op : {"editRole"}, role : RoleIDs, nam : RoleNams]

\* "page": the page is shown and the request not yet handled; "each": in the
\* loop of saveRefer or saveRoleFunc; "usrRole", "roleFunc": the statements
\* of delRoleFncAndRelation that are left; "nam": editRole has its entity.
Working == {"each", "usrRole", "roleFunc", "nam", "commit"}
Ended   == {"done", "failed"}

Roles == {r \in RoleIDs : roleNam[r] \in RoleNams}

\* The roles held by a user and the functions granted by a role, as committed.
RolesOf(u) == {x.role : x \in {y \in rows : y.of = u}}
FuncsOf(r) == {x.of : x \in {y \in rows : y.role = r /\ y.of \in FuncIDs}}

Active == {q \in Reqs : pc[q] \in Working}

-----------------------------------------------------------------------------
(* Pages.  A page fixes the parameters of the request sent from it; it shows *)
(* what is committed when it is loaded, and never the built-in role.        *)

Offered == Roles \ {SUPERROLE}

\* A new role gets an ID nobody had: DBUtil.getCommonId is a UUID, so when it
\* is drawn does not matter, and it is drawn here.
Fresh ==
    {r \in RoleIDs :
        /\ roleNam[r] = Unborn
        /\ \A q \in Reqs : form[q].op = "addRole" => form[q].role # r}

PageForms ==
    {f \in Form :
        /\ f.op = "addUsrRole" => f.role \in Offered \ RolesOf(f.usr)
        /\ f.op = "delUsrRole" => f.role \in Offered \cap RolesOf(f.usr)
        /\ f.op = "saveRefer" => f.usr \notin f.usrs
        /\ f.op \in {"delRoleFnc", "saveRoleFunc", "editRole"} => f.role \in Offered
        /\ f.op = "addRole" => f.role \in Fresh}

ShowPage(q) ==
    /\ pc[q] = "idle"
    /\ \E f \in PageForms : form' = [form EXCEPT ![q] = f]
    /\ pc' = [pc EXCEPT ![q] = "page"]
    /\ UNCHANGED <<tables, txn, mates, gone>>

-----------------------------------------------------------------------------
(* Transactions.                                                            *)

\* The first statement of q's transaction: from here it overlaps with the
\* transactions that are open, and they with it.
Begin(q) ==
    mates' = [p \in Reqs |-> IF p = q THEN Active
                             ELSE IF p \in Active THEN mates[p] \cup {q}
                             ELSE mates[p]]

\* The statement at "from" belongs to operation "op" and runs next in q.
At(q, op, from) == pc[q] = from /\ form[q].op = op
Goto(q, next)   == pc' = [pc EXCEPT ![q] = next]

Insert(q, new) == ins' = [ins EXCEPT ![q] = @ \cup new]

\* DELETE of the committed rows "old": they are locked until q ends, and q
\* waits while another open transaction has deleted one of them.
Delete(q, old) ==
    /\ \A p \in Reqs \ {q} : old \cap del[p] = {}
    /\ del' = [del EXCEPT ![q] = @ \cup old]

\* The transaction ends: nothing of it stays open.
Close(q, end) ==
    /\ Goto(q, end)
    /\ todo'    = [todo EXCEPT ![q] = {}]
    /\ seen'    = [seen EXCEPT ![q] = {}]
    /\ ins'     = [ins EXCEPT ![q] = {}]
    /\ del'     = [del EXCEPT ![q] = {}]
    /\ dropped' = [dropped EXCEPT ![q] = {}]

-----------------------------------------------------------------------------
(* UserServiceImpl.changeRoleForUsr                                         *)

\* Faulty: the INSERT without queryUsrRoleEntity.
AddUsrRoleBlindly(q) ==
    /\ At(q, "addUsrRole", "page")
    /\ Insert(q, {[role |-> form[q].role, of |-> form[q].usr, by |-> q]})
    /\ Begin(q) /\ Goto(q, "commit")
    /\ UNCHANGED <<tables, form, todo, seen, del, dropped, gone>>

\* queryUsrRoleEntity, then the INSERT only if it found nothing.
AddUsrRole(q) ==
    /\ At(q, "addUsrRole", "page")
    /\ LET f == form[q]
           held == \E x \in rows : x.role = f.role /\ x.of = f.usr
       IN  IF held THEN UNCHANGED ins
           ELSE Insert(q, {[role |-> f.role, of |-> f.usr, by |-> q]})
    /\ Begin(q) /\ Goto(q, "commit")
    /\ UNCHANGED <<tables, form, todo, seen, del, dropped, gone>>

DelUsrRole(q) ==
    /\ At(q, "delUsrRole", "page")
    /\ Delete(q, {x \in rows : x.role = form[q].role /\ x.of = form[q].usr})
    /\ Begin(q) /\ Goto(q, "commit")
    /\ UNCHANGED <<tables, form, todo, seen, ins, dropped, gone>>

(* UserServiceImpl.saveRefer: read the roles of one user, joined with        *)
(* sys_role, then for each of the others delete what it has and insert them. *)

\* Faulty: without the join with sys_role.
ReadReferUnjoined(q) ==
    /\ At(q, "saveRefer", "page")
    /\ seen' = [seen EXCEPT ![q] = RolesOf(form[q].usr)]
    /\ todo' = [todo EXCEPT ![q] = form[q].usrs]
    /\ Begin(q) /\ Goto(q, IF form[q].usrs = {} THEN "commit" ELSE "each")
    /\ UNCHANGED <<tables, form, ins, del, dropped, gone>>

\* Faulty: the SELECT names the wrong column.
ReadReferUsrid(q) ==
    /\ At(q, "saveRefer", "page")
    /\ seen' = [seen EXCEPT ![q] = {x.of : x \in {y \in rows : y.of = form[q].usr}}]
    /\ todo' = [todo EXCEPT ![q] = form[q].usrs]
    /\ Begin(q) /\ Goto(q, IF form[q].usrs = {} THEN "commit" ELSE "each")
    /\ UNCHANGED <<tables, form, ins, del, dropped, gone>>

ReadRefer(q) ==
    /\ At(q, "saveRefer", "page")
    /\ seen' = [seen EXCEPT ![q] = RolesOf(form[q].usr) \cap Roles]
    /\ todo' = [todo EXCEPT ![q] = form[q].usrs]
    /\ Begin(q) /\ Goto(q, IF form[q].usrs = {} THEN "commit" ELSE "each")
    /\ UNCHANGED <<tables, form, ins, del, dropped, gone>>

\* Faulty: the roles a user has are left in place.
ReferUsrKept(q) ==
    /\ At(q, "saveRefer", "each")
    /\ \E u \in todo[q] :
        /\ Delete(q, {})
        /\ Insert(q, {[role |-> r, of |-> u, by |-> q] : r \in seen[q] \ RolesOf(u)})
        /\ todo' = [todo EXCEPT ![q] = @ \ {u}]
        /\ Goto(q, IF todo[q] = {u} THEN "commit" ELSE "each")
    /\ UNCHANGED <<tables, form, seen, dropped, mates, gone>>

\* The order is the order of the posted list, which may be any.
ReferUsr(q) ==
    /\ At(q, "saveRefer", "each")
    /\ \E u \in todo[q] :
        /\ Delete(q, {x \in rows : x.of = u})
        /\ Insert(q, {[role |-> r, of |-> u, by |-> q] : r \in seen[q]})
        /\ todo' = [todo EXCEPT ![q] = @ \ {u}]
        /\ Goto(q, IF todo[q] = {u} THEN "commit" ELSE "each")
    /\ UNCHANGED <<tables, form, seen, dropped, mates, gone>>

(* RoleDao.delRoleFncAndRelation: three DELETEs.                            *)

DelRole(q) ==
    /\ At(q, "delRoleFnc", "page")
    /\ \A p \in Reqs \ {q} : form[q].role \notin dropped[p]
    /\ dropped' = [dropped EXCEPT ![q] = {form[q].role} \cap Roles]
    /\ Begin(q) /\ Goto(q, "usrRole")
    /\ UNCHANGED <<tables, form, todo, seen, ins, del, gone>>

DelRoleUsrs(q) ==
    /\ At(q, "delRoleFnc", "usrRole")
    /\ Delete(q, {x \in rows : x.role = form[q].role /\ x.of \in UsrIDs})
    /\ Goto(q, "roleFunc")
    /\ UNCHANGED <<tables, form, todo, seen, ins, dropped, mates, gone>>

DelRoleFuncs(q) ==
    /\ At(q, "delRoleFnc", "roleFunc")
    /\ Delete(q, {x \in rows : x.role = form[q].role /\ x.of \in FuncIDs})
    /\ Goto(q, "commit")
    /\ UNCHANGED <<tables, form, todo, seen, ins, dropped, mates, gone>>

(* RoleServiceImpl.saveRoleFunc: insert the posted functions the role does   *)
(* not have, then delete one by one those it has that were not posted.       *)

ReadRoleFunc(q) ==
    /\ At(q, "saveRoleFunc", "page")
    /\ LET r == form[q].role
           old == FuncsOf(r)
       IN  /\ Insert(q, {[role |-> r, of |-> f, by |-> q] : f \in form[q].funcs \ old})
           /\ todo' = [todo EXCEPT ![q] = old \ form[q].funcs]
           /\ Goto(q, IF old \subseteq form[q].funcs THEN "commit" ELSE "each")
    /\ Begin(q)
    /\ UNCHANGED <<tables, form, seen, del, dropped, gone>>

\* Faulty: the loop ends after its first DELETE.
DeleteRoleFuncOnce(q) ==
    /\ At(q, "saveRoleFunc", "each")
    /\ \E f \in todo[q] : Delete(q, {x \in rows : x.role = form[q].role /\ x.of = f})
    /\ Goto(q, "commit")
    /\ UNCHANGED <<tables, form, todo, seen, ins, dropped, mates, gone>>

DeleteRoleFunc(q) ==
    /\ At(q, "saveRoleFunc", "each")
    /\ \E f \in todo[q] :
        /\ Delete(q, {x \in rows : x.role = form[q].role /\ x.of = f})
        /\ todo' = [todo EXCEPT ![q] = @ \ {f}]
        /\ Goto(q, IF todo[q] = {f} THEN "commit" ELSE "each")
    /\ UNCHANGED <<tables, form, seen, ins, dropped, mates, gone>>

(* RoleServiceImpl.addRole and editRole.                                     *)

Named(n) == {r \in Roles : roleNam[r] = n}

AddRole(q) ==
    /\ At(q, "addRole", "page")
    /\ Goto(q, IF Named(form[q].nam) = {} THEN "commit" ELSE "failed")
    /\ Begin(q)
    /\ UNCHANGED <<tables, form, txn, gone>>

\* findEntityByID; a role that is not there any more ends in an exception.
FindRole(q) ==
    /\ At(q, "editRole", "page")
    /\ Goto(q, IF form[q].role \in Roles THEN "nam" ELSE "failed")
    /\ Begin(q)
    /\ UNCHANGED <<tables, form, txn, gone>>

\* queryRoleByNam gives the first of the roles with that name, whichever it is.
EditRoleNam(q) ==
    /\ At(q, "editRole", "nam")
    /\ \/ Named(form[q].nam) \subseteq {form[q].role} /\ Goto(q, "commit")
       \/ form[q].role \in Named(form[q].nam) /\ Goto(q, "commit")
       \/ Named(form[q].nam) \ {form[q].role} # {} /\ Goto(q, "failed")
    /\ UNCHANGED <<tables, form, txn, mates, gone>>

-----------------------------------------------------------------------------
(* The end of a transaction.                                                 *)

\* Deleted under q: from now on by q, or by others while q commits.
GoneAfter(q) ==
    [p \in Reqs |->
        IF p = q THEN gone[q] \cup UNION {dropped[o] : o \in Reqs \ {q}}
        ELSE IF pc[p] \in Working \cup {"page"} THEN gone[p] \cup dropped[q]
        ELSE gone[p]]

Commit(q) ==
    /\ pc[q] = "commit"
    /\ form[q].op \notin {"addRole", "editRole"}
    /\ rows' = (rows \ del[q]) \cup ins[q]
    /\ roleNam' = [r \in RoleIDs |-> IF r \in dropped[q] THEN Deleted ELSE roleNam[r]]
    /\ gone' = GoneAfter(q)
    /\ Close(q, "done")
    /\ UNCHANGED <<form, mates>>

CommitAddRole(q) ==
    /\ At(q, "addRole", "commit")
    /\ roleNam' = [roleNam EXCEPT ![form[q].role] = form[q].nam]
    /\ Close(q, "done")
    /\ UNCHANGED <<rows, form, mates, gone>>

\* The flush of the entity waits while the row is being deleted; when the row
\* has gone, Hibernate finds no row updated and throws.
CommitEditRole(q) ==
    /\ At(q, "editRole", "commit")
    /\ \A p \in Reqs : form[q].role \notin dropped[p]
    /\ IF form[q].role \in Roles
       THEN roleNam' = [roleNam EXCEPT ![form[q].role] = form[q].nam] /\ Close(q, "done")
       ELSE UNCHANGED roleNam /\ Close(q, "failed")
    /\ UNCHANGED <<rows, form, mates, gone>>

\* Faulty: the exception is not one the advice rolls back for, and the
\* transaction is left open with its locks.
RollbackNever(q) ==
    /\ pc[q] \in Working
    /\ Goto(q, "failed")
    /\ UNCHANGED <<tables, form, txn, mates, gone>>

\* Any exception, and the end of the process, undo what is not committed.
Rollback(q) ==
    /\ pc[q] \in Working
    /\ Close(q, "failed")
    /\ UNCHANGED <<tables, form, mates, gone>>

\* The rows that the DELETEs q has still to run, at this place, have to lock.
Wanted(q) ==
    LET f == form[q] IN
    {x \in rows :
        \/ f.op = "saveRefer"    /\ x.of \in todo[q]
        \/ f.op = "saveRoleFunc" /\ x.of \in todo[q] /\ x.role = f.role
        \/ f.op = "delRoleFnc"   /\ x.of \in UsrIDs  /\ x.role = f.role /\ pc[q] = "usrRole"
        \/ f.op = "delRoleFnc"   /\ x.of \in FuncIDs /\ x.role = f.role /\ pc[q] = "roleFunc"}

\* Transactions that wait for each other in a circle: Oracle ends the statement
\* of one of them with ORA-00060, and the exception rolls its transaction back.
Deadlocked(q) ==
    \E S \in SUBSET Active :
        /\ q \in S
        /\ \A x \in S : \E y \in S \ {x} : Wanted(x) \cap del[y] # {}

BreakDeadlock(q) == Deadlocked(q) /\ Rollback(q)

-----------------------------------------------------------------------------
Init ==
    /\ roleNam \in [RoleIDs -> RoleNams \cup {Unborn}]
    /\ roleNam[SUPERROLE] \in RoleNams
    /\ \A r, s \in Roles : roleNam[r] = roleNam[s] => r = s
    /\ rows \in SUBSET [role : Roles, of : UsrIDs \cup FuncIDs, by : {Seed}]
    /\ pc      = [q \in Reqs |-> "idle"]
    /\ form    = [q \in Reqs |-> NoForm]
    /\ todo    = [q \in Reqs |-> {}]
    /\ seen    = [q \in Reqs |-> {}]
    /\ ins     = [q \in Reqs |-> {}]
    /\ del     = [q \in Reqs |-> {}]
    /\ dropped = [q \in Reqs |-> {}]
    /\ mates   = [q \in Reqs |-> {}]
    /\ gone    = [q \in Reqs |-> {}]

\* One statement, or the commit, of the request.
Step(q) ==
    \/ AddUsrRole(q)
    \/ DelUsrRole(q)
    \/ ReadRefer(q)
    \/ ReferUsr(q)
    \/ DelRole(q)
    \/ DelRoleUsrs(q)
    \/ DelRoleFuncs(q)
    \/ ReadRoleFunc(q)
    \/ DeleteRoleFunc(q)
    \/ AddRole(q)
    \/ FindRole(q)
    \/ EditRoleNam(q)
    \/ Commit(q)
    \/ CommitAddRole(q)
    \/ CommitEditRole(q)

Next == \E q \in Reqs : ShowPage(q) \/ Step(q) \/ Rollback(q)

\* A thread of the container goes on with its request, and the database breaks
\* deadlocks; nobody has to send the request of a page that is shown.
Fairness ==
    \A q \in Reqs : /\ WF_vars(pc[q] \in Working /\ Step(q))
                    /\ WF_vars(BreakDeadlock(q))

Spec == Init /\ [][Next]_vars
FairSpec == Spec /\ Fairness

-----------------------------------------------------------------------------
(* Properties.                                                               *)

\* The variables have their types.
TypeOK ==
    /\ roleNam \in [RoleIDs -> RoleNams \cup {Unborn, Deleted}]
    /\ rows \in SUBSET Row
    /\ pc \in [Reqs -> {"idle", "page"} \cup Working \cup Ended]
    /\ form \in [Reqs -> Form \cup {NoForm}]
    /\ todo \in [Reqs -> SUBSET (UsrIDs \cup FuncIDs)]
    /\ seen \in [Reqs -> SUBSET RoleIDs]
    /\ ins \in [Reqs -> SUBSET Row]
    /\ del \in [Reqs -> SUBSET Row]
    /\ dropped \in [Reqs -> SUBSET RoleIDs]
    /\ mates \in [Reqs -> SUBSET Reqs]
    /\ gone \in [Reqs -> SUBSET RoleIDs]

\* A row that refers to a role which is not in sys_role was inserted by a
\* request whose page was open, or whose transaction was, while that role was
\* being deleted: delRoleFncAndRelation removes everything older, and
\* saveRefer, which joins with sys_role, never passes such a row on.
OrphanOnlyFromOverlap ==
    \A x \in rows :
        x.role \in Roles \/ (x.by \in Reqs /\ x.role \in gone[x.by])

\* Two rows that give the same role to the same user, or the same function to
\* the same role, come from two transactions that overlapped: changeRoleForUsr
\* and saveRoleFunc look before they insert, and saveRefer deletes first.
TwinsOnlyFromOverlap ==
    \A x, y \in rows :
        (x.role = y.role /\ x.of = y.of /\ x.by # y.by) =>
            (x.by \in Reqs /\ y.by \in Reqs /\ x.by \in mates[y.by])

Outcome(q) ==
    LET f == form[q] IN
    CASE f.op = "addUsrRole"   -> f.role \in RolesOf(f.usr)'
      [] f.op = "delUsrRole"   -> f.role \notin RolesOf(f.usr)'
      [] f.op = "saveRefer"    -> \A u \in f.usrs : RolesOf(u)' = RolesOf(f.usr) \cap Roles
      [] f.op = "delRoleFnc"   -> f.role \notin Roles' /\ \A x \in rows' : x.role # f.role
      [] f.op = "saveRoleFunc" -> FuncsOf(f.role)' = f.funcs
      [] f.op = "addRole"      -> Named(f.nam)' = {f.role}
      [] f.op = "editRole"     -> /\ f.role \in Named(f.nam)'
                                  /\ Named(f.nam) \subseteq {f.role} => Named(f.nam)' = {f.role}

\* A transaction that no other one overlapped leaves what its service method is
\* there for: the role given or taken, the users with exactly the roles of the
\* one they were copied from, nothing left of a deleted role, the role with
\* exactly the posted functions, the new name borne by one role.
AloneKeepsContract ==
    [][\A q \in Reqs :
        (pc[q] = "commit" /\ pc'[q] = "done" /\ mates[q] = {}) => Outcome(q)]_vars

\* Every transaction ends, deadlocks between the DELETEs of saveRefer,
\* saveRoleFunc and delRoleFncAndRelation included.
TransactionsEnd ==
    \A q \in Reqs : pc[q] \in Working ~> pc[q] \in Ended

\* Deleting a role deletes "the role itself, its association with users and its
\* association with functions" (RoleServiceImpl.java:122).
DeletedRoleLeavesNothing == \A x \in rows : x.role \in Roles

=============================================================================
