--------------------------- MODULE RoleAuthProofs ---------------------------
(* Proofs of the safety properties of RoleAuth, for any sets of users,       *)
(* functions, roles and requests.                                            *)
EXTENDS RoleAuth, TLAPS

(***************************************************************************)
(* Type correctness.                                                       *)
(***************************************************************************)

\* Initially every variable has its type.
LEMMA InitType == Init => TypeOK
  BY RoleAuthAssumption DEF Init, TypeOK, Row, Roles

\* A page shows parameters of the right type.
LEMMA PageFormsType == PageForms \subseteq Form
  BY DEF PageForms

\* Every step of a request keeps the types.
LEMMA StepType ==
  ASSUME TypeOK, NEW q \in Reqs, ShowPage(q) \/ Step(q) \/ Rollback(q)
  PROVE  TypeOK'
<1> USE DEF TypeOK, tables, txn, At, Goto, Insert, Delete, Begin, Close, Active, Working, Ended
<1>1. CASE ShowPage(q)
  BY <1>1, PageFormsType DEF ShowPage
<1>2. CASE AddUsrRole(q)
  BY <1>2 DEF AddUsrRole, Form, NoForm, Row
<1>3. CASE DelUsrRole(q)
  BY <1>3 DEF DelUsrRole
<1>4. CASE ReadRefer(q)
  BY <1>4 DEF ReadRefer, Form, NoForm, Roles
<1>5. CASE ReferUsr(q)
  BY <1>5 DEF ReferUsr, Row, Form, NoForm
<1>6. CASE DelRole(q)
  BY <1>6 DEF DelRole, Roles, Form, NoForm
<1>7. CASE DelRoleUsrs(q)
  BY <1>7 DEF DelRoleUsrs
<1>8. CASE DelRoleFuncs(q)
  BY <1>8 DEF DelRoleFuncs
<1>9. CASE ReadRoleFunc(q)
  BY <1>9 DEF ReadRoleFunc, Row, Form, NoForm, FuncsOf
<1>10. CASE DeleteRoleFunc(q)
  BY <1>10 DEF DeleteRoleFunc
<1>11. CASE AddRole(q)
  BY <1>11 DEF AddRole
<1>12. CASE FindRole(q)
  BY <1>12 DEF FindRole
<1>13. CASE EditRoleNam(q)
  BY <1>13 DEF EditRoleNam
<1>14. CASE Commit(q)
  <2>1. gone' \in [Reqs -> SUBSET RoleIDs]
    <3>1. \A p \in Reqs : gone[p] \cup dropped[q] \subseteq RoleIDs  OBVIOUS
    <3>2. gone[q] \cup UNION {dropped[o] : o \in Reqs \ {q}} \subseteq RoleIDs  OBVIOUS
    <3> QED BY <1>14, <3>1, <3>2 DEF Commit, GoneAfter
  <2>2. roleNam' \in [RoleIDs -> RoleNams \cup {Unborn, Deleted}]
    BY <1>14 DEF Commit
  <2> QED BY <1>14, <2>1, <2>2 DEF Commit
<1>15. CASE CommitAddRole(q)
  <2>1. form[q].role \in RoleIDs /\ form[q].nam \in RoleNams
    BY <1>15 DEF CommitAddRole, Form, NoForm
  <2> QED BY <1>15, <2>1 DEF CommitAddRole
<1>16. CASE CommitEditRole(q)
  <2>1. form[q].role \in RoleIDs /\ form[q].nam \in RoleNams
    BY <1>16 DEF CommitEditRole, Form, NoForm
  <2> QED BY <1>16, <2>1 DEF CommitEditRole
<1>17. CASE Rollback(q)
  BY <1>17 DEF Rollback
<1> QED BY <1>1, <1>2, <1>3, <1>4, <1>5, <1>6, <1>7, <1>8, <1>9, <1>10, <1>11, <1>12, <1>13, <1>14, <1>15, <1>16, <1>17 DEF Step

\* Theorem: in every reachable state the variables have their types.
THEOREM TypeCorrect == Spec => []TypeOK
<1>1. TypeOK /\ [Next]_vars => TypeOK'
  <2> SUFFICES ASSUME TypeOK, [Next]_vars PROVE TypeOK'  OBVIOUS
  <2>1. CASE UNCHANGED vars  BY <2>1 DEF vars, TypeOK
  <2>2. CASE Next            BY <2>2, StepType DEF Next
  <2> QED BY <2>1, <2>2
<1> QED BY <1>1, InitType, PTL DEF Spec

(***************************************************************************)
(* Orphan rows: the inductive invariant.                                   *)
(***************************************************************************)

Live == Working \cup {"page"}

\* What a request can still refer to: a role that is there or went under it.
Known(q) == Roles \cup gone[q]

\* The form of a request: fixed when its page is shown; the role it names was
\* there then, except that addRole holds an ID nobody has used.
InvForm ==
    \A q \in Reqs :
        /\ pc[q] # "idle" => form[q] \in Form
        /\ pc[q] = "idle" => form[q] = NoForm
        /\ pc[q] \in Live /\ form[q].op \notin {"saveRefer", "addRole"}
              => form[q].role \in Known(q)
        /\ pc[q] # "idle" /\ form[q].op \notin {"saveRefer", "addRole"}
              => roleNam[form[q].role] # Unborn
        /\ pc[q] \in Live /\ form[q].op = "addRole" => roleNam[form[q].role] = Unborn

\* No two requests add the same role.
InvFresh ==
    \A p, q \in Reqs :
        (p # q /\ form[p].op = "addRole" /\ form[q].op = "addRole")
            => form[p].role # form[q].role

\* What an open transaction has read and inserted is about roles it knows.
InvTxn ==
    \A q \in Reqs :
        /\ seen[q] \subseteq Known(q)
        /\ seen[q] # {} => pc[q] \in Working /\ form[q].op = "saveRefer"
        /\ \A x \in ins[q] : /\ x.by = q
                             /\ x.role \in Known(q)
                             /\ pc[q] \in Working
                             /\ form[q].op \in {"addUsrRole", "saveRefer", "saveRoleFunc"}

\* A sys_role row is deleted by one open delRoleFnc, the one that names it.
InvDrop ==
    \A q \in Reqs :
        /\ dropped[q] \subseteq Roles
        /\ \A r \in dropped[q] : /\ pc[q] \in {"usrRole", "roleFunc", "commit"}
                                 /\ form[q].op = "delRoleFnc"
                                 /\ form[q].role = r
        /\ (form[q].op = "delRoleFnc" /\ pc[q] \in Working /\ form[q].role \in Roles)
              => form[q].role \in dropped[q]
        /\ \A p \in Reqs : p # q => dropped[p] \cap dropped[q] = {}

Gone(x) == x.by \in Reqs /\ x.role \in gone[x.by]

\* Once delRoleFnc has run its DELETE on a table, the rows of its role that it
\* does not hold deleted were inserted by a request the deletion overlapped.
InvDel ==
    \A q \in Reqs : form[q].op = "delRoleFnc" =>
        \A x \in rows : x.role = form[q].role =>
            /\ (x.of \in UsrIDs /\ pc[q] \in {"roleFunc", "commit"}) => x \in del[q] \/ Gone(x)
            /\ (x.of \in FuncIDs /\ pc[q] = "commit") => x \in del[q] \/ Gone(x)

OrphanInv ==
    TypeOK /\ InvForm /\ InvFresh /\ InvTxn /\ InvDrop /\ InvDel /\ OrphanOnlyFromOverlap

(***************************************************************************)
(* Orphan rows: the steps.                                                 *)
(***************************************************************************)

\* The steps that commit nothing.
Statement(q) ==
    \/ AddUsrRole(q) \/ DelUsrRole(q)
    \/ ReadRefer(q) \/ ReferUsr(q)
    \/ DelRole(q) \/ DelRoleUsrs(q) \/ DelRoleFuncs(q)
    \/ ReadRoleFunc(q) \/ DeleteRoleFunc(q)
    \/ AddRole(q) \/ FindRole(q) \/ EditRoleNam(q)
    \/ Rollback(q)

\* Every form but that of saveRefer names a role.
LEMMA FormRole ==
  ASSUME NEW f \in Form, f.op # "saveRefer"
  PROVE  f.role \in RoleIDs
  BY DEF Form

\* saveRoleFunc posts functions.
LEMMA FormFuncs ==
  ASSUME NEW f \in Form, f.op = "saveRoleFunc"
  PROVE  f.funcs \subseteq FuncIDs
  BY DEF Form

\* A page names roles that are there, or an ID nobody has used.
LEMMA PageRole ==
  ASSUME NEW f \in PageForms
  PROVE  /\ f \in Form
         /\ f.op \notin {"saveRefer", "addRole"} => f.role \in Roles
         /\ f.op = "addRole" => f.role \in Fresh
  BY DEF PageForms, Offered, Form

\* The end of a transaction touches the request that ends, and nothing of it
\* stays open.
LEMMA CloseFacts ==
  ASSUME TypeOK, NEW q \in Reqs, NEW end, Close(q, end)
  PROVE  /\ pc'[q] = end
         /\ \A p \in Reqs \ {q} : pc'[p] = pc[p]
         /\ seen'[q] = {} /\ ins'[q] = {} /\ del'[q] = {} /\ dropped'[q] = {}
         /\ \A p \in Reqs \ {q} : /\ seen'[p] = seen[p]
                                  /\ ins'[p] = ins[p]
                                  /\ del'[p] = del[p]
                                  /\ dropped'[p] = dropped[p]
  BY DEF TypeOK, Close, Goto

\* A statement changes no table, no form and no history of deletions, and it
\* touches no other transaction.
LEMMA StatementFacts ==
  ASSUME TypeOK, NEW q \in Reqs, Statement(q)
  PROVE  /\ UNCHANGED <<roleNam, rows, form, gone>>
         /\ pc[q] \in Live
         /\ pc'[q] \in Working \cup Ended
         /\ \A p \in Reqs \ {q} : /\ pc'[p] = pc[p]
                                  /\ seen'[p] = seen[p]
                                  /\ ins'[p] = ins[p]
                                  /\ del'[p] = del[p]
                                  /\ dropped'[p] = dropped[p]
<1> USE DEF TypeOK, tables, txn, At, Goto, Insert, Delete, Live, Working, Ended
<1>1. CASE AddUsrRole(q)
  BY <1>1 DEF AddUsrRole
<1>2. CASE DelUsrRole(q)
  BY <1>2 DEF DelUsrRole
<1>3. CASE ReadRefer(q)
  BY <1>3 DEF ReadRefer
<1>4. CASE ReferUsr(q)
  BY <1>4 DEF ReferUsr
<1>5. CASE DelRole(q)
  BY <1>5 DEF DelRole
<1>6. CASE DelRoleUsrs(q)
  BY <1>6 DEF DelRoleUsrs
<1>7. CASE DelRoleFuncs(q)
  BY <1>7 DEF DelRoleFuncs
<1>8. CASE ReadRoleFunc(q)
  BY <1>8 DEF ReadRoleFunc
<1>9. CASE DeleteRoleFunc(q)
  BY <1>9 DEF DeleteRoleFunc
<1>10. CASE AddRole(q)
  BY <1>10 DEF AddRole
<1>11. CASE FindRole(q)
  BY <1>11 DEF FindRole
<1>12. CASE EditRoleNam(q)
  BY <1>12 DEF EditRoleNam
<1>13. CASE Rollback(q)
  BY <1>13 DEF Rollback, Close
<1> QED BY <1>1, <1>2, <1>3, <1>4, <1>5, <1>6, <1>7, <1>8, <1>9, <1>10, <1>11, <1>12, <1>13 DEF Statement

\* What follows for the parts that speak of tables and forms only.
LEMMA StatementQuiet ==
  ASSUME OrphanInv, NEW q \in Reqs, Statement(q)
  PROVE  InvForm' /\ InvFresh' /\ OrphanOnlyFromOverlap'
<1> USE DEF OrphanInv
<1>1. /\ UNCHANGED <<roleNam, rows, form, gone>>
      /\ pc[q] \in Live
      /\ pc'[q] \in Working \cup Ended
      /\ \A p \in Reqs \ {q} : pc'[p] = pc[p]
  BY StatementFacts
<1>2. InvForm'
  BY <1>1 DEF InvForm, Known, Roles, Live, Working, Ended
<1>3. InvFresh'
  BY <1>1 DEF InvFresh
<1>4. OrphanOnlyFromOverlap'
  BY <1>1 DEF OrphanOnlyFromOverlap, Roles
<1> QED BY <1>2, <1>3, <1>4

\* A statement keeps the parts that speak of what transactions hold.
LEMMA StatementTxn ==
  ASSUME OrphanInv, NEW q \in Reqs, Statement(q)
  PROVE  InvTxn' /\ InvDrop' /\ InvDel'
<1> USE DEF OrphanInv, TypeOK, Known, Roles, tables, txn, At, Goto, Insert, Delete, Working, Live
<1>a. /\ UNCHANGED <<roleNam, rows, form, gone>>
      /\ pc[q] \in Live
      /\ \A p \in Reqs \ {q} : /\ pc'[p] = pc[p]
                               /\ seen'[p] = seen[p]
                               /\ ins'[p] = ins[p]
                               /\ del'[p] = del[p]
                               /\ dropped'[p] = dropped[p]
  BY StatementFacts
<1>1. CASE AddUsrRole(q)
  <2>1. InvTxn'   BY <1>1, <1>a DEF AddUsrRole, InvTxn, InvForm
  <2>2. InvDrop'  BY <1>1, <1>a DEF AddUsrRole, InvDrop
  <2>3. InvDel'   BY <1>1, <1>a DEF AddUsrRole, InvDel, Gone
  <2> QED BY <2>1, <2>2, <2>3
<1>2. CASE DelUsrRole(q)
  <2>1. InvTxn'   BY <1>2, <1>a DEF DelUsrRole, InvTxn
  <2>2. InvDrop'  BY <1>2, <1>a DEF DelUsrRole, InvDrop
  <2>3. InvDel'   BY <1>2, <1>a DEF DelUsrRole, InvDel, Gone
  <2> QED BY <2>1, <2>2, <2>3
<1>3. CASE ReadRefer(q)
  <2>1. InvTxn'   BY <1>3, <1>a DEF ReadRefer, InvTxn
  <2>2. InvDrop'  BY <1>3, <1>a DEF ReadRefer, InvDrop
  <2>3. InvDel'   BY <1>3, <1>a DEF ReadRefer, InvDel, Gone
  <2> QED BY <2>1, <2>2, <2>3
<1>4. CASE ReferUsr(q)
  <2>1. InvTxn'   BY <1>4, <1>a DEF ReferUsr, InvTxn
  <2>2. InvDrop'  BY <1>4, <1>a DEF ReferUsr, InvDrop
  <2>3. InvDel'   BY <1>4, <1>a DEF ReferUsr, InvDel, Gone
  <2> QED BY <2>1, <2>2, <2>3
<1>5. CASE DelRole(q)
  <2>1. InvTxn'   BY <1>5, <1>a DEF DelRole, InvTxn
  <2>2. InvDrop'  BY <1>5, <1>a DEF DelRole, InvDrop
  <2>3. InvDel'   BY <1>5, <1>a DEF DelRole, InvDel, Gone
  <2> QED BY <2>1, <2>2, <2>3
<1>6. CASE DelRoleUsrs(q)
  <2>1. InvTxn'   BY <1>6, <1>a DEF DelRoleUsrs, InvTxn
  <2>2. InvDrop'  BY <1>6, <1>a DEF DelRoleUsrs, InvDrop
  <2>3. InvDel'   BY <1>6, <1>a DEF DelRoleUsrs, InvDel, Gone
  <2> QED BY <2>1, <2>2, <2>3
<1>7. CASE DelRoleFuncs(q)
  <2>1. InvTxn'   BY <1>7, <1>a DEF DelRoleFuncs, InvTxn
  <2>2. InvDrop'  BY <1>7, <1>a DEF DelRoleFuncs, InvDrop
  <2>3. InvDel'   BY <1>7, <1>a DEF DelRoleFuncs, InvDel, Gone
  <2> QED BY <2>1, <2>2, <2>3
<1>8. CASE ReadRoleFunc(q)
  <2>1. InvTxn'   BY <1>8, <1>a DEF ReadRoleFunc, InvTxn, InvForm
  <2>2. InvDrop'  BY <1>8, <1>a DEF ReadRoleFunc, InvDrop
  <2>3. InvDel'   BY <1>8, <1>a DEF ReadRoleFunc, InvDel, Gone
  <2> QED BY <2>1, <2>2, <2>3
<1>9. CASE DeleteRoleFunc(q)
  <2>1. InvTxn'   BY <1>9, <1>a DEF DeleteRoleFunc, InvTxn
  <2>2. InvDrop'  BY <1>9, <1>a DEF DeleteRoleFunc, InvDrop
  <2>3. InvDel'   BY <1>9, <1>a DEF DeleteRoleFunc, InvDel, Gone
  <2> QED BY <2>1, <2>2, <2>3
<1>10. CASE AddRole(q)
  <2>1. InvTxn'   BY <1>10, <1>a DEF AddRole, InvTxn
  <2>2. InvDrop'  BY <1>10, <1>a DEF AddRole, InvDrop
  <2>3. InvDel'   BY <1>10, <1>a DEF AddRole, InvDel, Gone
  <2> QED BY <2>1, <2>2, <2>3
<1>11. CASE FindRole(q)
  <2>1. InvTxn'   BY <1>11, <1>a DEF FindRole, InvTxn
  <2>2. InvDrop'  BY <1>11, <1>a DEF FindRole, InvDrop
  <2>3. InvDel'   BY <1>11, <1>a DEF FindRole, InvDel, Gone
  <2> QED BY <2>1, <2>2, <2>3
<1>12. CASE EditRoleNam(q)
  <2>1. InvTxn'   BY <1>12, <1>a DEF EditRoleNam, InvTxn
  <2>2. InvDrop'  BY <1>12, <1>a DEF EditRoleNam, InvDrop
  <2>3. InvDel'   BY <1>12, <1>a DEF EditRoleNam, InvDel, Gone
  <2> QED BY <2>1, <2>2, <2>3
<1>13. CASE Rollback(q)
  <2>1. InvTxn'   BY <1>13, <1>a DEF Rollback, Close, InvTxn
  <2>2. InvDrop'  BY <1>13, <1>a DEF Rollback, Close, InvDrop
  <2>3. InvDel'   BY <1>13, <1>a DEF Rollback, Close, InvDel, Gone
  <2> QED BY <2>1, <2>2, <2>3
<1> QED BY <1>1, <1>2, <1>3, <1>4, <1>5, <1>6, <1>7, <1>8, <1>9, <1>10, <1>11, <1>12, <1>13 DEF Statement

\* Showing a page starts no transaction and touches no table.
LEMMA PageStep ==
  ASSUME OrphanInv, NEW q \in Reqs, ShowPage(q)
  PROVE  InvForm' /\ InvFresh' /\ InvTxn' /\ InvDrop' /\ InvDel' /\ OrphanOnlyFromOverlap'
<1> USE DEF OrphanInv, TypeOK
<1>1. PICK f \in PageForms : form' = [form EXCEPT ![q] = f]
  BY DEF ShowPage
<1>2. /\ f \in Form
      /\ f.op \notin {"saveRefer", "addRole"} => f.role \in Roles
      /\ f.op = "addRole" => f.role \in Fresh
  BY <1>1, PageRole
<1>3. /\ UNCHANGED <<roleNam, rows, gone, seen, ins, del, dropped>>
      /\ pc[q] = "idle"
      /\ pc'[q] = "page"
  BY DEF ShowPage, tables, txn
<1>4. form'[q] = f /\ \A p \in Reqs \ {q} : form'[p] = form[p] /\ pc'[p] = pc[p]
  BY <1>1 DEF ShowPage
<1>5. InvForm'
  <2>1. Roles' = Roles /\ \A p \in Reqs : Known(p)' = Known(p)
    BY <1>3 DEF Roles, Known
  <2>2. /\ f.op \notin {"saveRefer", "addRole"} => roleNam'[f.role] # Unborn
        /\ f.op = "addRole" => roleNam'[f.role] = Unborn
    BY <1>2, <1>3, RoleAuthAssumption DEF Fresh, Roles
  <2> QED BY <2>1, <2>2, <1>2, <1>3, <1>4 DEF InvForm, Known
<1>6. InvFresh'
  BY <1>2, <1>4 DEF InvFresh, Fresh
<1>7. InvTxn'
  BY <1>3, <1>4 DEF InvTxn, Known, Roles, Working
<1>8. InvDrop'
  BY <1>3, <1>4 DEF InvDrop, Roles, Working
<1>9. InvDel'
  BY <1>3, <1>4 DEF InvDel, Gone
<1>10. OrphanOnlyFromOverlap'
  BY <1>3 DEF OrphanOnlyFromOverlap, Roles
<1> QED BY <1>5, <1>6, <1>7, <1>8, <1>9, <1>10

\* The commit of the operations that write sys_usr_role, sys_role_func or
\* delete from sys_role.
LEMMA CommitStep ==
  ASSUME OrphanInv, TypeOK', NEW q \in Reqs, Commit(q)
  PROVE  InvForm' /\ InvFresh' /\ InvTxn' /\ InvDrop' /\ InvDel' /\ OrphanOnlyFromOverlap'
<1> USE DEF OrphanInv, TypeOK
<1>1. /\ UNCHANGED form
      /\ pc[q] = "commit"
      /\ rows' = (rows \ del[q]) \cup ins[q]
      /\ Close(q, "done")
  BY DEF Commit
<1>2. /\ \A p \in Reqs \ {q} : pc[p] \in Live => gone'[p] = gone[p] \cup dropped[q]
      /\ \A p \in Reqs : gone[p] \subseteq gone'[p]
  BY DEF Commit, GoneAfter, Live
<1>3. \A r \in RoleIDs : roleNam'[r] = IF r \in dropped[q] THEN Deleted ELSE roleNam[r]
  BY DEF Commit
<1>4. dropped[q] \subseteq Roles
  BY DEF InvDrop
<1>5. Roles' = Roles \ dropped[q]
  BY <1>3, <1>4, RoleAuthAssumption DEF Roles
<1>6. InvForm'
  BY <1>1, <1>2, <1>3, <1>4, <1>5, CloseFacts, FormRole, RoleAuthAssumption
     DEF InvForm, Known, Live, Working, Roles
<1>7. InvFresh'
  BY <1>1 DEF InvFresh
<1>8. InvTxn'
  <2>1. \A p \in Reqs \ {q} : pc[p] \in Working => Known(p) \subseteq Known(p)'
    BY <1>2, <1>5 DEF Known, Live
  <2>2. \A p \in Reqs \ {q} : pc[p] \in Working \/ seen[p] = {}
    BY DEF InvTxn
  <2> QED BY <2>1, <2>2, <1>1, CloseFacts DEF InvTxn
<1>9. InvDrop'
  <2>1. dropped'[q] = {} /\ pc'[q] = "done"
    BY <1>1, CloseFacts
  <2>2. ASSUME NEW p \in Reqs \ {q}
        PROVE  pc'[p] = pc[p] /\ dropped'[p] = dropped[p] /\ form'[p] = form[p]
    BY <1>1, CloseFacts
  <2>3. ASSUME NEW p \in Reqs \ {q}
        PROVE  dropped[p] \subseteq Roles'
    BY <1>5 DEF InvDrop
  <2>4. ASSUME NEW p \in Reqs
        PROVE  /\ dropped'[p] \subseteq Roles'
               /\ \A r \in dropped'[p] : /\ pc'[p] \in {"usrRole", "roleFunc", "commit"}
                                         /\ form'[p].op = "delRoleFnc"
                                         /\ form'[p].role = r
               /\ (form'[p].op = "delRoleFnc" /\ pc'[p] \in Working /\ form'[p].role \in Roles')
                     => form'[p].role \in dropped'[p]
    <3>1. CASE p = q
      BY <2>1, <3>1 DEF Working
    <3>2. CASE p # q
      BY <2>2, <2>3, <3>2, <1>5 DEF InvDrop
    <3> QED BY <3>1, <3>2
  <2>5. ASSUME NEW p \in Reqs, NEW r \in Reqs, p # r
        PROVE  dropped'[r] \cap dropped'[p] = {}
    <3>1. CASE p = q \/ r = q
      BY <2>1, <3>1
    <3>2. CASE p # q /\ r # q
      <4>1. dropped'[p] = dropped[p] /\ dropped'[r] = dropped[r]
        BY <2>2, <3>2
      <4>2. dropped[r] \cap dropped[p] = {}
        BY <2>5 DEF InvDrop
      <4> QED BY <4>1, <4>2
    <3> QED BY <3>1, <3>2
  <2> QED BY <2>4, <2>5 DEF InvDrop
<1>10. InvDel'
  <2> SUFFICES ASSUME NEW p \in Reqs \ {q}, form[p].op = "delRoleFnc",
                      NEW x \in rows', x.role = form[p].role
               PROVE  /\ (x.of \in UsrIDs /\ pc[p] \in {"roleFunc", "commit"}) => x \in del[p] \/ Gone(x)'
                      /\ (x.of \in FuncIDs /\ pc[p] = "commit") => x \in del[p] \/ Gone(x)'
    BY <1>1, CloseFacts DEF InvDel
  <2>1. CASE x \in rows
    BY <2>1, <1>2 DEF InvDel, Gone
  <2>2. CASE x \in ins[q]
    <3>1. x.by = q /\ x.role \in Known(q)
      BY <2>2 DEF InvTxn
    <3>2. x.role \notin Roles \/ pc[p] \notin Working \/ x.role \in dropped[p]
      BY DEF InvDrop
    <3>3. x.role \in gone'[q] \/ pc[p] \notin Working
      BY <3>1, <3>2, <1>2 DEF Known, Commit, GoneAfter
    <3> QED BY <3>1, <3>3 DEF Gone, Working
  <2> QED BY <2>1, <2>2, <1>1
<1>11. OrphanOnlyFromOverlap'
  <2> SUFFICES ASSUME NEW x \in rows', x.role \notin Roles'
               PROVE  x.by \in Reqs /\ x.role \in gone'[x.by]
    BY DEF OrphanOnlyFromOverlap
  <2>1. CASE x \in ins[q]
    <3>1. x.by = q /\ x.role \in Known(q) /\ form[q].op # "delRoleFnc"
      BY <2>1 DEF InvTxn
    <3>2. dropped[q] = {}
      BY <3>1 DEF InvDrop
    <3> QED BY <3>1, <3>2, <1>2, <1>5 DEF Known
  <2>2. CASE x \in rows /\ x \notin del[q] /\ x.role \notin Roles
    BY <2>2, <1>2 DEF OrphanOnlyFromOverlap
  <2>3. CASE x \in rows /\ x \notin del[q] /\ x.role \in dropped[q]
    <3>1. form[q].op = "delRoleFnc" /\ form[q].role = x.role
      BY <2>3 DEF InvDrop
    <3>2. Gone(x)
      BY <2>3, <3>1, <1>1 DEF InvDel, Row
    <3> QED BY <3>2, <1>2 DEF Gone
  <2> QED BY <2>1, <2>2, <2>3, <1>1, <1>5
<1> QED BY <1>6, <1>7, <1>8, <1>9, <1>10, <1>11

\* The commits of addRole and editRole: they take no role away.
LEMMA CommitNamStep ==
  ASSUME OrphanInv, TypeOK', NEW q \in Reqs, CommitAddRole(q) \/ CommitEditRole(q)
  PROVE  InvForm' /\ InvFresh' /\ InvTxn' /\ InvDrop' /\ InvDel' /\ OrphanOnlyFromOverlap'
<1> USE DEF OrphanInv, TypeOK
<1>1. /\ UNCHANGED <<rows, form, gone>>
      /\ pc[q] = "commit"
      /\ form[q].op \in {"addRole", "editRole"}
      /\ Close(q, "done") \/ Close(q, "failed")
  BY DEF CommitAddRole, CommitEditRole, At
<1>2. form[q].role \in RoleIDs /\ form[q].nam \in RoleNams
  BY <1>1 DEF InvForm, Form
<1>3. \A r \in RoleIDs : \/ roleNam'[r] = roleNam[r]
                         \/ /\ roleNam'[r] \in RoleNams
                            /\ \/ roleNam[r] \in RoleNams
                               \/ form[q].op = "addRole" /\ r = form[q].role
  BY <1>2 DEF CommitAddRole, CommitEditRole, Roles, At
<1>4. Roles \subseteq Roles'
  BY <1>3 DEF Roles
<1>5. InvForm'
  <2>1. \A p \in Reqs \ {q} :
            pc[p] \in Live /\ form[p].op = "addRole" /\ form[q].op = "addRole" => form[p].role # form[q].role
    BY DEF InvFresh
  <2> QED BY <2>1, <1>1, <1>3, <1>4, CloseFacts, FormRole, RoleAuthAssumption
          DEF InvForm, Known, Live, Working
<1>6. InvFresh'
  BY <1>1 DEF InvFresh
<1>7. InvTxn'
  BY <1>1, <1>4, CloseFacts DEF InvTxn, Known
<1>8. InvDrop'
  <2>1. \A p \in Reqs : form[p].op = "delRoleFnc" /\ pc[p] \in Working /\ form[p].role \in Roles'
                          => form[p].role \in Roles
    <3> SUFFICES ASSUME NEW p \in Reqs, form[p].op = "delRoleFnc", pc[p] \in Working,
                        form[p].role \in Roles'
                 PROVE  form[p].role \in Roles
      OBVIOUS
    <3>1. form[p] \in Form /\ roleNam[form[p].role] # Unborn
      BY DEF InvForm, Working
    <3>2. form[p].role \in RoleIDs /\ roleNam'[form[p].role] \in RoleNams
      BY <3>1, FormRole DEF Roles
    <3>3. form[p].role # form[q].role \/ form[q].op # "addRole"
      BY <1>1, <3>1 DEF InvForm, Live, Working
    <3> QED BY <3>2, <3>3, <1>3 DEF Roles
  <2>2. \A p \in Reqs : form'[p] = form[p]
    BY <1>1
  <2>3. \A p \in Reqs : pc'[p] \in Working => p # q
    BY <1>1, CloseFacts DEF Working
  <2>4. dropped[q] = {}
    BY <1>1 DEF InvDrop
  <2> QED BY <1>1, <1>4, <2>1, <2>2, <2>3, <2>4, CloseFacts DEF InvDrop
<1>9. InvDel'
  BY <1>1, CloseFacts DEF InvDel, Gone
<1>10. OrphanOnlyFromOverlap'
  BY <1>1, <1>4 DEF OrphanOnlyFromOverlap
<1> QED BY <1>5, <1>6, <1>7, <1>8, <1>9, <1>10

\* The invariant holds initially and every step keeps it.
LEMMA OrphanInduction ==
  /\ Init => OrphanInv
  /\ OrphanInv /\ [Next]_vars => OrphanInv'
<1>1. Init => OrphanInv
  <2> SUFFICES ASSUME Init PROVE OrphanInv  OBVIOUS
  <2>1. TypeOK  BY InitType
  <2>2. OrphanOnlyFromOverlap  BY DEF Init, OrphanOnlyFromOverlap
  <2> QED BY <2>1, <2>2
          DEF Init, OrphanInv, InvForm, InvFresh, InvTxn, InvDrop, InvDel, NoForm, Live, Working
<1>2. ASSUME OrphanInv, NEW q \in Reqs, ShowPage(q) \/ Step(q) \/ Rollback(q)
      PROVE  OrphanInv'
  <2>1. TypeOK'
    BY <1>2, StepType DEF OrphanInv
  <2>2. ShowPage(q) \/ Statement(q) \/ Commit(q) \/ CommitAddRole(q) \/ CommitEditRole(q)
    BY <1>2 DEF Step, Statement
  <2> QED BY <1>2, <2>1, <2>2, PageStep, StatementQuiet, StatementTxn, CommitStep, CommitNamStep
          DEF OrphanInv
<1>3. ASSUME OrphanInv, UNCHANGED vars PROVE OrphanInv'
  BY <1>3 DEF vars, OrphanInv, TypeOK, InvForm, InvFresh, InvTxn, InvDrop, InvDel,
              OrphanOnlyFromOverlap, Known, Gone, Roles
<1> QED BY <1>1, <1>2, <1>3 DEF Next

\* Theorem: in every reachable state, a row whose role is not in sys_role was
\* inserted by a request that the deletion of the role overlapped.
THEOREM OrphansOnlyFromOverlap == Spec => []OrphanOnlyFromOverlap
<1>1. OrphanInv => OrphanOnlyFromOverlap  BY DEF OrphanInv
<1> QED BY <1>1, OrphanInduction, PTL DEF Spec

(***************************************************************************)
(* Twin rows.                                                              *)
(***************************************************************************)

\* Two rows for the same thing.
Same(x, y) == x.role = y.role /\ x.of = y.of

\* Overlapping is mutual, holds between all open transactions, and starts with
\* the transaction.
InvMates ==
    \A p, q \in Reqs :
        /\ p \in mates[q] => q \in mates[p]
        /\ p # q /\ p \in Active /\ q \in Active => p \in mates[q]
        /\ pc[q] \in {"idle", "page"} => mates[q] = {}

\* A row appears when the request that inserted it commits.
InvDone == \A x \in rows : x.by \in Reqs => pc[x.by] = "done"

\* A committed row that an open transaction is inserting once more is one it
\* has deleted, or one of a transaction that it overlaps with.
InvTwin ==
    \A q \in Reqs : \A x \in ins[q] : \A y \in rows :
        Same(x, y) => y \in del[q] \/ (y.by \in Reqs /\ y.by \in mates[q])

TwinInv == OrphanInv /\ InvMates /\ InvDone /\ InvTwin /\ TwinsOnlyFromOverlap

\* The steps that start a transaction.
Starts(q) ==
    \/ AddUsrRole(q) \/ DelUsrRole(q) \/ ReadRefer(q) \/ DelRole(q)
    \/ ReadRoleFunc(q) \/ AddRole(q) \/ FindRole(q)

\* A transaction that starts keeps the histories of the others, and overlaps
\* with the open ones and with no other.
LEMMA BeginMates ==
  ASSUME TypeOK, InvMates, NEW q \in Reqs, pc[q] = "page", Begin(q),
         pc' \in [Reqs -> {"idle", "page"} \cup Working \cup Ended],
         pc'[q] \in Working \cup Ended, \A p \in Reqs \ {q} : pc'[p] = pc[p]
  PROVE  InvMates' /\ \A p \in Reqs : mates[p] \subseteq mates'[p]
<1> USE DEF TypeOK, Working, Ended
<1>1. mates[q] = {} /\ q \notin Active /\ \A p \in Reqs : q \notin mates[p]
  BY DEF InvMates, Active
<1>2. /\ mates'[q] = Active
      /\ \A p \in Reqs \ {q} : \A o \in Reqs :
             o \in mates'[p] <=> (o \in mates[p] \/ (o = q /\ p \in Active))
  BY DEF Begin
<1>3. Active' \subseteq Active \cup {q}
  BY DEF Active
<1>4. InvMates'
  <2>1. ASSUME NEW p \in Reqs, NEW r \in Reqs, p \in mates'[r]
        PROVE  r \in mates'[p]
    <3>1. CASE p = q /\ r = q
      BY <3>1, <2>1, <1>1, <1>2
    <3>2. CASE p = q /\ r # q
      BY <3>2, <2>1, <1>1, <1>2
    <3>3. CASE p # q /\ r = q
      BY <3>3, <2>1, <1>1, <1>2
    <3>4. CASE p # q /\ r # q
      BY <3>4, <2>1, <1>1, <1>2 DEF InvMates
    <3> QED BY <3>1, <3>2, <3>3, <3>4
  <2>2. ASSUME NEW p \in Reqs, NEW r \in Reqs, p # r, p \in Active', r \in Active'
        PROVE  p \in mates'[r]
    <3>1. CASE p = q \/ r = q
      BY <3>1, <2>2, <1>2, <1>3
    <3>2. CASE p # q /\ r # q
      BY <3>2, <2>2, <1>2, <1>3 DEF InvMates
    <3> QED BY <3>1, <3>2
  <2>3. \A p \in Reqs : pc'[p] \in {"idle", "page"} => mates'[p] = {}
    BY <1>1, <1>2 DEF InvMates, Active, Begin
  <2> QED BY <2>1, <2>2, <2>3 DEF InvMates
<1>5. \A p \in Reqs : mates[p] \subseteq mates'[p]
  BY <1>1, <1>2
<1> QED BY <1>4, <1>5

\* Histories of overlaps only grow, and stay mutual.
LEMMA MatesStep ==
  ASSUME OrphanInv, InvMates, NEW q \in Reqs, ShowPage(q) \/ Step(q) \/ Rollback(q)
  PROVE  InvMates' /\ \A p \in Reqs : mates[p] \subseteq mates'[p]
<1> USE DEF OrphanInv
<1>1. CASE Starts(q)
  <2>1. Statement(q) /\ Begin(q) /\ pc[q] = "page"
    BY <1>1 DEF Starts, Statement, At, AddUsrRole, DelUsrRole, ReadRefer, DelRole, ReadRoleFunc, AddRole, FindRole
  <2>2. TypeOK'
    BY StepType
  <2> QED BY <2>1, <2>2, BeginMates, StatementFacts DEF TypeOK
<1>2. CASE ShowPage(q)
  <2>1. mates' = mates /\ pc' = [pc EXCEPT ![q] = "page"] /\ pc[q] = "idle"
    BY <1>2 DEF ShowPage
  <2> QED BY <2>1 DEF TypeOK, InvMates, Active, Working
<1>3. CASE ReferUsr(q) \/ DelRoleUsrs(q) \/ DelRoleFuncs(q) \/ DeleteRoleFunc(q) \/ EditRoleNam(q)
  <2>1. mates' = mates /\ pc[q] \in Working /\ Statement(q)
    BY <1>3 DEF ReferUsr, DelRoleUsrs, DelRoleFuncs, DeleteRoleFunc, EditRoleNam, Statement, At, Working
  <2> QED BY <2>1, StatementFacts DEF TypeOK, InvMates, Active, Working, Ended
<1>4. CASE Commit(q) \/ CommitAddRole(q) \/ CommitEditRole(q) \/ Rollback(q)
  <2>1. mates' = mates /\ pc[q] \in Working /\ (Close(q, "done") \/ Close(q, "failed"))
    BY <1>4 DEF Commit, CommitAddRole, CommitEditRole, Rollback, At, Working
  <2> QED BY <2>1, CloseFacts DEF TypeOK, InvMates, Active, Working
<1> QED BY <1>1, <1>2, <1>3, <1>4 DEF Step, Starts

\* A statement inserts only what is not there, or what it deletes first.
LEMMA StatementTwin ==
  ASSUME TwinInv, NEW q \in Reqs, Statement(q)
  PROVE  InvDone' /\ InvTwin' /\ TwinsOnlyFromOverlap'
<1> USE DEF TwinInv, OrphanInv, TypeOK, tables, txn, At, Goto, Insert, Delete, Same
<1>1. /\ UNCHANGED <<roleNam, rows, form, gone>>
      /\ pc[q] \in Live
      /\ \A p \in Reqs \ {q} : pc'[p] = pc[p] /\ ins'[p] = ins[p] /\ del'[p] = del[p]
  BY StatementFacts
<1>2. \A p \in Reqs : mates[p] \subseteq mates'[p]
  BY MatesStep DEF Statement, Step
<1>3. InvDone'
  BY <1>1 DEF InvDone, Row, Live, Working
<1>4. TwinsOnlyFromOverlap'
  BY <1>1, <1>2 DEF TwinsOnlyFromOverlap
<1>5. ASSUME \A x \in ins'[q] : \A y \in rows :
                 Same(x, y) => y \in del'[q] \/ (y.by \in Reqs /\ y.by \in mates'[q])
      PROVE  InvTwin'
  BY <1>1, <1>2, <1>5 DEF InvTwin
<1>6. CASE AddUsrRole(q)
  <2>1. \A x \in ins'[q] \ ins[q] : \A y \in rows : ~ Same(x, y)
    BY <1>6 DEF AddUsrRole
  <2> QED BY <2>1, <1>2, <1>3, <1>4, <1>5, <1>6 DEF AddUsrRole, InvTwin
<1>7. CASE ReferUsr(q)
  <2>1. del[q] \subseteq del'[q] /\ \A x \in ins'[q] \ ins[q] : \A y \in rows : Same(x, y) => y \in del'[q]
    BY <1>7 DEF ReferUsr
  <2> QED BY <2>1, <1>2, <1>3, <1>4, <1>5 DEF InvTwin
<1>8. CASE ReadRoleFunc(q)
  <2>1. \A x \in ins'[q] \ ins[q] : \A y \in rows : ~ Same(x, y)
    BY <1>8, FormFuncs DEF ReadRoleFunc, FuncsOf, InvForm
  <2> QED BY <2>1, <1>2, <1>3, <1>4, <1>5, <1>8 DEF ReadRoleFunc, InvTwin
<1>9. CASE DelUsrRole(q) \/ ReadRefer(q) \/ DelRole(q) \/ DelRoleUsrs(q) \/ DelRoleFuncs(q)
           \/ DeleteRoleFunc(q) \/ AddRole(q) \/ FindRole(q) \/ EditRoleNam(q)
  <2>1. ins'[q] = ins[q] /\ del[q] \subseteq del'[q]
    BY <1>9 DEF DelUsrRole, ReadRefer, DelRole, DelRoleUsrs, DelRoleFuncs, DeleteRoleFunc,
                AddRole, FindRole, EditRoleNam
  <2> QED BY <2>1, <1>2, <1>3, <1>4, <1>5 DEF InvTwin
<1>10. CASE Rollback(q)
  <2>1. ins'[q] = {}
    BY <1>10, CloseFacts DEF Rollback
  <2> QED BY <2>1, <1>3, <1>4, <1>5
<1> QED BY <1>6, <1>7, <1>8, <1>9, <1>10 DEF Statement

\* What a commit makes visible has its twins among the transactions it
\* overlapped with.
LEMMA CommitTwin ==
  ASSUME TwinInv, NEW q \in Reqs, Commit(q)
  PROVE  InvDone' /\ InvTwin' /\ TwinsOnlyFromOverlap'
<1> USE DEF TwinInv, OrphanInv, TypeOK, Same
<1>1. /\ rows' = (rows \ del[q]) \cup ins[q]
      /\ mates' = mates
      /\ pc[q] = "commit"
      /\ Close(q, "done")
  BY DEF Commit
<1>2. \A x \in ins[q] : x.by = q
  BY DEF InvTxn
<1>3. InvDone'
  BY <1>1, <1>2, CloseFacts DEF InvDone, Row
<1>4. InvTwin'
  <2> SUFFICES ASSUME NEW p \in Reqs \ {q}, NEW x \in ins[p], NEW y \in rows', Same(x, y)
               PROVE  y \in del[p] \/ (y.by \in Reqs /\ y.by \in mates[p])
    BY <1>1, CloseFacts DEF InvTwin
  <2>1. CASE y \in rows
    BY <2>1 DEF InvTwin
  <2>2. CASE y \in ins[q]
    <3>1. p \in Active /\ q \in Active
      BY <1>1 DEF InvTxn, Active, Working
    <3> QED BY <2>2, <3>1, <1>2 DEF InvMates
  <2> QED BY <2>1, <2>2, <1>1
<1>5. TwinsOnlyFromOverlap'
  <2> SUFFICES ASSUME NEW x \in rows', NEW y \in rows', Same(x, y), x.by # y.by
               PROVE  x.by \in Reqs /\ y.by \in Reqs /\ x.by \in mates[y.by]
    BY <1>1 DEF TwinsOnlyFromOverlap
  <2>1. CASE x \in rows /\ y \in rows
    BY <2>1 DEF TwinsOnlyFromOverlap
  <2>2. CASE x \in ins[q] /\ y \in rows \ del[q]
    BY <2>2, <1>2 DEF InvTwin, InvMates
  <2>3. CASE y \in ins[q] /\ x \in rows \ del[q]
    BY <2>3, <1>2 DEF InvTwin, InvMates
  <2>4. CASE x \in ins[q] /\ y \in ins[q]
    BY <2>4, <1>2
  <2> QED BY <2>1, <2>2, <2>3, <2>4, <1>1
<1> QED BY <1>3, <1>4, <1>5

\* The invariant holds initially and every step keeps it.
LEMMA TwinInduction ==
  /\ Init => TwinInv
  /\ TwinInv /\ [Next]_vars => TwinInv'
<1>1. Init => TwinInv
  <2> SUFFICES ASSUME Init PROVE TwinInv  OBVIOUS
  <2>1. OrphanInv  BY OrphanInduction
  <2>2. \A x, y \in rows : x.by = Seed /\ y.by = Seed  BY DEF Init
  <2> QED BY <2>1, <2>2, RoleAuthAssumption
          DEF Init, TwinInv, InvMates, InvDone, InvTwin, TwinsOnlyFromOverlap, Active, Working
<1>2. ASSUME TwinInv, NEW q \in Reqs, ShowPage(q) \/ Step(q) \/ Rollback(q)
      PROVE  TwinInv'
  <2>1. OrphanInv'
    BY <1>2, OrphanInduction DEF TwinInv, Next
  <2>2. InvMates' /\ \A p \in Reqs : mates[p] \subseteq mates'[p]
    BY <1>2, MatesStep DEF TwinInv
  <2>3. CASE Statement(q)
    BY <2>1, <2>2, <2>3, <1>2, StatementTwin DEF TwinInv
  <2>4. CASE Commit(q)
    BY <2>1, <2>2, <2>4, <1>2, CommitTwin DEF TwinInv
  <2>5. CASE ShowPage(q) \/ CommitAddRole(q) \/ CommitEditRole(q)
    <3>1. rows' = rows /\ mates' = mates
      BY <2>5 DEF ShowPage, CommitAddRole, CommitEditRole, tables
    <3>2. \/ ins' = ins /\ del' = del
          \/ Close(q, "done") \/ Close(q, "failed")
      BY <2>5 DEF ShowPage, CommitAddRole, CommitEditRole, txn
    <3>3. \A p \in Reqs : pc[p] = "done" => pc'[p] = "done"
      BY <2>5, <1>2 DEF ShowPage, CommitAddRole, CommitEditRole, At, Close, Goto, TwinInv, OrphanInv, TypeOK
    <3>4. InvDone'
      BY <3>1, <3>3, <1>2 DEF InvDone, TwinInv
    <3>5. InvTwin'
      BY <3>1, <3>2, <1>2, CloseFacts DEF InvTwin, TwinInv, OrphanInv, Same
    <3>6. TwinsOnlyFromOverlap'
      BY <3>1, <1>2 DEF TwinsOnlyFromOverlap, TwinInv
    <3> QED BY <2>1, <2>2, <3>4, <3>5, <3>6 DEF TwinInv
  <2> QED BY <1>2, <2>3, <2>4, <2>5 DEF Step, Statement
<1>3. ASSUME TwinInv, UNCHANGED vars PROVE TwinInv'
  <2>1. OrphanInv'
    BY <1>3, OrphanInduction DEF TwinInv
  <2> QED BY <2>1, <1>3 DEF vars, TwinInv, InvMates, InvDone, InvTwin, TwinsOnlyFromOverlap, Same, Active
<1> QED BY <1>1, <1>2, <1>3 DEF Next

\* Theorem: in every reachable state, two rows for the same thing come from two
\* transactions that overlapped.
THEOREM TwinsFromOverlap == Spec => []TwinsOnlyFromOverlap
<1>1. TwinInv => TwinsOnlyFromOverlap  BY DEF TwinInv
<1> QED BY <1>1, TwinInduction, PTL DEF Spec

(***************************************************************************)
(* A transaction that nothing overlaps.                                    *)
(***************************************************************************)

\* What each operation has done so far, when no other transaction has touched
\* the tables since its first statement.
AddUsrRoleSoFar(q) ==
    /\ del[q] = {}
    /\ \E x \in rows \cup ins[q] : x.role = form[q].role /\ x.of = form[q].usr

DelUsrRoleSoFar(q) ==
    \A x \in rows : (x.role = form[q].role /\ x.of = form[q].usr) => x \in del[q]

SaveReferSoFar(q) ==
    LET copied == form[q].usrs \ todo[q] IN
    /\ seen[q] = RolesOf(form[q].usr) \cap Roles
    /\ todo[q] \subseteq form[q].usrs /\ (pc[q] = "commit" => todo[q] = {})
    /\ \A x \in rows : x.of \in copied => x \in del[q]
    /\ \A x \in ins[q] : x.role \in seen[q] /\ x.of \in copied
    /\ \A r \in seen[q] : \A u \in copied : \E x \in ins[q] : x.role = r /\ x.of = u

DelRoleFncSoFar(q) ==
    \A x \in rows : x.role = form[q].role =>
        /\ (x.of \in UsrIDs /\ pc[q] \in {"roleFunc", "commit"}) => x \in del[q]
        /\ (x.of \in FuncIDs /\ pc[q] = "commit") => x \in del[q]

SaveRoleFuncSoFar(q) ==
    LET r   == form[q].role
        new == form[q].funcs
    IN  /\ pc[q] = "commit" => todo[q] = {}
        /\ \A x \in rows : (x.role = r /\ x.of \in FuncIDs \ new) => (x \in del[q] \/ x.of \in todo[q])
        /\ \A x \in del[q] : x.of \notin new
        /\ \A x \in ins[q] : x.role = r /\ x.of \in new
        /\ \A f \in new : \E x \in rows \cup ins[q] : x.role = r /\ x.of = f
        /\ todo[q] \cap new = {}

SoFar(q) ==
    /\ form[q].op = "addUsrRole"   => AddUsrRoleSoFar(q)
    /\ form[q].op = "delUsrRole"   => DelUsrRoleSoFar(q)
    /\ form[q].op = "saveRefer"    => SaveReferSoFar(q)
    /\ form[q].op = "delRoleFnc"   => DelRoleFncSoFar(q)
    /\ form[q].op = "saveRoleFunc" => SaveRoleFuncSoFar(q)
    /\ form[q].op = "addRole"      => Named(form[q].nam) = {}

\* While no other transaction overlaps with one, what it has read and written
\* is what its operation is there for; one that is not
\* open, or writes one role only, has no rows to delete.
InvAlone == \A q \in Reqs : (pc[q] \in Working /\ mates[q] = {}) => SoFar(q)

InvClosed ==
    \A q \in Reqs :
        (pc[q] \notin Working \/ form[q].op \in {"addRole", "editRole"})
            => todo[q] = {} /\ del[q] = {}

AloneInv == TwinInv /\ InvClosed /\ InvAlone

\* What a transaction that goes on has done so far, it has still done after a
\* step of its own that starts it or continues it.
LEMMA OwnStep ==
  ASSUME TwinInv, TypeOK', InvClosed, InvAlone, NEW q \in Reqs, Statement(q),
         pc'[q] \in Working, pc[q] = "page" \/ mates[q] = {}
  PROVE  SoFar(q)'
<1> USE DEF TwinInv, OrphanInv, TypeOK, tables, txn, At, Goto, Insert, Delete
<1>1. UNCHANGED <<roleNam, rows, form>>
  BY StatementFacts
<1>2. pc[q] = "page" => todo[q] = {} /\ del[q] = {} /\ ins[q] = {}
  BY DEF InvClosed, InvTxn, Working
<1>3. pc[q] \in Working /\ pc[q] # "page" => SoFar(q)
  BY DEF InvAlone, Working
<1>4. pc[q] # "idle" => form[q] \in Form
  BY DEF InvForm
<1>5. Roles' = Roles /\ \A u : RolesOf(u)' = RolesOf(u)
  BY <1>1 DEF Roles, RolesOf
<1>6. CASE AddUsrRole(q)
  <2> DEFINE f == form[q]
  <2>1. f \in Form /\ f.op = "addUsrRole" /\ del'[q] = {} /\ rows' = rows /\ form' = form
    BY <1>6, <1>2, <1>4 DEF AddUsrRole
  <2>2. f.role \in RoleIDs /\ f.usr \in UsrIDs
    BY <2>1 DEF Form
  <2>3. \E x \in rows \cup ins'[q] : x.role = f.role /\ x.of = f.usr
    <3>1. CASE \E x \in rows : x.role = f.role /\ x.of = f.usr
      BY <3>1
    <3>2. CASE ~ \E x \in rows : x.role = f.role /\ x.of = f.usr
      <4> DEFINE new == [role |-> f.role, of |-> f.usr, by |-> q]
      <4>1. new \in ins'[q]
        BY <3>2, <1>6 DEF AddUsrRole
      <4>2. new.role = f.role /\ new.of = f.usr
        OBVIOUS
      <4> QED BY <4>1, <4>2
    <3> QED BY <3>1, <3>2
  <2> QED BY <2>1, <2>3 DEF SoFar, AddUsrRoleSoFar
<1>7. CASE DelUsrRole(q)
  <2>1. /\ form[q].op = "delUsrRole"
        /\ \A x \in rows : (x.role = form[q].role /\ x.of = form[q].usr) => x \in del'[q]
    BY <1>7 DEF DelUsrRole
  <2> QED BY <2>1, <1>1 DEF SoFar, DelUsrRoleSoFar
<1>8. CASE ReadRefer(q)
  <2>1. /\ form[q].op = "saveRefer"
        /\ seen'[q] = RolesOf(form[q].usr) \cap Roles
        /\ todo'[q] = form[q].usrs
        /\ ins'[q] = {}
        /\ pc'[q] = IF form[q].usrs = {} THEN "commit" ELSE "each"
    BY <1>8, <1>2, <1>4 DEF ReadRefer, Form
  <2> QED BY <2>1, <1>1, <1>5 DEF SoFar, SaveReferSoFar
<1>9. CASE ReferUsr(q)
  <2>1. PICK u \in todo[q] : /\ Delete(q, {x \in rows : x.of = u})
                             /\ Insert(q, {[role |-> r, of |-> u, by |-> q] : r \in seen[q]})
                             /\ todo' = [todo EXCEPT ![q] = @ \ {u}]
                             /\ Goto(q, IF todo[q] = {u} THEN "commit" ELSE "each")
    BY <1>9 DEF ReferUsr
  <2>2. form[q].op = "saveRefer" /\ pc[q] = "each" /\ seen' = seen /\ SaveReferSoFar(q)
    BY <1>9, <1>3 DEF ReferUsr, SoFar, Working
  <2>3. \A x \in rows : x.of = u \/ x \in del[q] => x \in del'[q]
    BY <2>1
  <2>4. ins'[q] = ins[q] \cup {[role |-> r, of |-> u, by |-> q] : r \in seen[q]}
    BY <2>1
  <2>5. todo'[q] = todo[q] \ {u} /\ pc'[q] = (IF todo[q] = {u} THEN "commit" ELSE "each")
    BY <2>1
  <2>6. form[q].usrs \ todo'[q] \subseteq (form[q].usrs \ todo[q]) \cup {u}
    BY <2>5
  <2>7. \A x \in ins'[q] : x.role \in seen[q] /\ (x.of = u \/ x.of \in form[q].usrs \ todo[q])
    BY <2>2, <2>4 DEF SaveReferSoFar
  <2>8. \A r \in seen[q] : \A v \in (form[q].usrs \ todo[q]) \cup {u} :
            \E x \in ins'[q] : x.role = r /\ x.of = v
    <3> SUFFICES ASSUME NEW r \in seen[q], NEW v \in (form[q].usrs \ todo[q]) \cup {u}
                 PROVE  \E x \in ins'[q] : x.role = r /\ x.of = v
      OBVIOUS
    <3>1. CASE v = u
      <4> DEFINE new == [role |-> r, of |-> u, by |-> q]
      <4>1. new \in ins'[q]
        BY <2>4
      <4>2. new.role = r /\ new.of = u
        OBVIOUS
      <4> QED BY <4>1, <4>2, <3>1
    <3>2. CASE v \in form[q].usrs \ todo[q]
      BY <3>2, <2>2, <2>4 DEF SaveReferSoFar
    <3> QED BY <3>1, <3>2
  <2>9. u \in form[q].usrs
    BY <2>1, <2>2 DEF SaveReferSoFar
  <2>10. seen'[q] = RolesOf(form[q].usr) \cap Roles
    BY <2>2 DEF SaveReferSoFar
  <2>11. \A x \in rows : x.of \in form[q].usrs \ todo'[q] => x \in del'[q]
    BY <2>2, <2>3, <2>6 DEF SaveReferSoFar
  <2> HIDE DEF Delete, Insert, Goto
  <2> QED BY <2>2, <2>5, <2>6, <2>7, <2>8, <2>9, <2>10, <2>11, <1>1, <1>5 DEF SoFar, SaveReferSoFar
<1>10. CASE DelRole(q)
  BY <1>10, <1>1 DEF DelRole, SoFar, DelRoleFncSoFar
<1>11. CASE DelRoleUsrs(q)
  BY <1>11, <1>1 DEF DelRoleUsrs, SoFar, DelRoleFncSoFar
<1>12. CASE DelRoleFuncs(q)
  <2>1. form[q].op = "delRoleFnc" /\ pc[q] = "roleFunc" /\ DelRoleFncSoFar(q)
    BY <1>12, <1>3 DEF DelRoleFuncs, SoFar, Working
  <2>2. \A x \in rows : \/ x \in del[q]
                        \/ x.role = form[q].role /\ x.of \in FuncIDs => x \in del'[q]
    BY <1>12 DEF DelRoleFuncs
  <2>3. del[q] \subseteq del'[q]
    BY <1>12 DEF DelRoleFuncs
  <2> QED BY <2>1, <2>2, <2>3, <1>1 DEF SoFar, DelRoleFncSoFar
<1>13. CASE ReadRoleFunc(q)
  <2> DEFINE r == form[q].role
             new == form[q].funcs
  <2>1. /\ form[q] \in Form
        /\ form[q].op = "saveRoleFunc"
        /\ ins'[q] = {[role |-> r, of |-> f, by |-> q] : f \in new \ FuncsOf(r)}
        /\ todo'[q] = FuncsOf(r) \ new
        /\ pc'[q] = IF FuncsOf(r) \subseteq new THEN "commit" ELSE "each"
        /\ del'[q] = {}
    BY <1>13, <1>2, <1>4 DEF ReadRoleFunc
  <2>2. new \subseteq FuncIDs
    BY <2>1, FormFuncs
  <2>3. \A x \in rows : (x.role = r /\ x.of \in FuncIDs) => x.of \in FuncsOf(r)
    BY DEF FuncsOf
  <2>4. \A f \in FuncsOf(r) : \E x \in rows : x.role = r /\ x.of = f
    BY DEF FuncsOf
  <2>5. \A x \in ins'[q] : x.role = r /\ x.of \in new
    BY <2>1
  <2>6. \A f \in new \ FuncsOf(r) : \E x \in ins'[q] : x.role = r /\ x.of = f
    <3> SUFFICES ASSUME NEW f \in new \ FuncsOf(r)
                 PROVE  \E x \in ins'[q] : x.role = r /\ x.of = f
      OBVIOUS
    <3> DEFINE row == [role |-> r, of |-> f, by |-> q]
    <3>1. row \in ins'[q]
      BY <2>1
    <3>2. row.role = r /\ row.of = f
      OBVIOUS
    <3> QED BY <3>1, <3>2
  <2>7. \A f \in new : \E x \in rows \cup ins'[q] : x.role = r /\ x.of = f
    BY <2>4, <2>6
  <2> QED BY <2>1, <2>3, <2>5, <2>7, <1>1 DEF SoFar, SaveRoleFuncSoFar
<1>14. CASE DeleteRoleFunc(q)
  <2>1. PICK f \in todo[q] : /\ Delete(q, {x \in rows : x.role = form[q].role /\ x.of = f})
                             /\ todo' = [todo EXCEPT ![q] = @ \ {f}]
                             /\ Goto(q, IF todo[q] = {f} THEN "commit" ELSE "each")
    BY <1>14 DEF DeleteRoleFunc
  <2>2. form[q].op = "saveRoleFunc" /\ pc[q] = "each" /\ ins' = ins /\ SaveRoleFuncSoFar(q)
    BY <1>14, <1>3 DEF DeleteRoleFunc, SoFar, Working
  <2>3. del'[q] = del[q] \cup {x \in rows : x.role = form[q].role /\ x.of = f}
    BY <2>1
  <2>4. todo'[q] = todo[q] \ {f} /\ pc'[q] = (IF todo[q] = {f} THEN "commit" ELSE "each")
    BY <2>1
  <2>5. f \notin form[q].funcs
    BY <2>2 DEF SaveRoleFuncSoFar
  <2> QED BY <2>2, <2>3, <2>4, <2>5, <1>1 DEF SoFar, SaveRoleFuncSoFar
<1>15. CASE AddRole(q)
  <2>1. form[q].op = "addRole" /\ Named(form[q].nam) = {}
    BY <1>15 DEF AddRole, Working
  <2> QED BY <2>1, <1>1, <1>5 DEF SoFar, Named
<1>16. CASE FindRole(q) \/ EditRoleNam(q)
  BY <1>16, <1>1 DEF FindRole, EditRoleNam, SoFar
<1>17. CASE Rollback(q)
  BY <1>17, CloseFacts DEF Rollback, Working
<1> QED BY <1>6, <1>7, <1>8, <1>9, <1>10, <1>11, <1>12, <1>13, <1>14, <1>15, <1>16, <1>17 DEF Statement

\* Only the request that moves changes what it has to do, holds or has read.
LEMMA OthersKept ==
  ASSUME TypeOK, NEW q \in Reqs, ShowPage(q) \/ Step(q) \/ Rollback(q)
  PROVE  \A p \in Reqs \ {q} : /\ pc'[p] = pc[p] /\ form'[p] = form[p]
                               /\ todo'[p] = todo[p] /\ seen'[p] = seen[p]
                               /\ ins'[p] = ins[p] /\ del'[p] = del[p]
<1> USE DEF TypeOK, tables, txn, At, Goto, Insert, Delete, Close
<1>1. CASE ShowPage(q)
  BY <1>1 DEF ShowPage
<1>2. CASE AddUsrRole(q) \/ DelUsrRole(q) \/ ReadRefer(q) \/ ReferUsr(q)
  BY <1>2 DEF AddUsrRole, DelUsrRole, ReadRefer, ReferUsr
<1>3. CASE DelRole(q) \/ DelRoleUsrs(q) \/ DelRoleFuncs(q) \/ ReadRoleFunc(q) \/ DeleteRoleFunc(q)
  BY <1>3 DEF DelRole, DelRoleUsrs, DelRoleFuncs, ReadRoleFunc, DeleteRoleFunc
<1>4. CASE AddRole(q) \/ FindRole(q) \/ EditRoleNam(q)
  BY <1>4 DEF AddRole, FindRole, EditRoleNam
<1>5. CASE Commit(q) \/ CommitAddRole(q) \/ CommitEditRole(q) \/ Rollback(q)
  BY <1>5 DEF Commit, CommitAddRole, CommitEditRole, Rollback
<1> QED BY <1>1, <1>2, <1>3, <1>4, <1>5 DEF Step

\* A request outside a transaction, or one that writes a single role, has no
\* rows to delete.
LEMMA ClosedStep ==
  ASSUME TypeOK, InvClosed, NEW q \in Reqs, ShowPage(q) \/ Step(q) \/ Rollback(q)
  PROVE  InvClosed'
<1> USE DEF TypeOK, tables, txn, At, Goto, Working
<1> DEFINE Free(p) == todo[p] = {} /\ del[p] = {}
           Names(p) == form[p].op \in {"addRole", "editRole"}
<1>1. (pc'[q] \notin Working \/ Names(q)') => Free(q)'
  <2>1. CASE ShowPage(q)
    BY <2>1 DEF ShowPage, InvClosed
  <2>2. CASE AddUsrRole(q) \/ DelUsrRole(q) \/ ReadRefer(q) \/ ReferUsr(q)
    BY <2>2 DEF AddUsrRole, DelUsrRole, ReadRefer, ReferUsr
  <2>3. CASE DelRole(q) \/ DelRoleUsrs(q) \/ DelRoleFuncs(q) \/ ReadRoleFunc(q) \/ DeleteRoleFunc(q)
    BY <2>3 DEF DelRole, DelRoleUsrs, DelRoleFuncs, ReadRoleFunc, DeleteRoleFunc
  <2>4. CASE AddRole(q) \/ FindRole(q) \/ EditRoleNam(q)
    BY <2>4 DEF AddRole, FindRole, EditRoleNam, InvClosed
  <2>5. CASE Commit(q) \/ CommitAddRole(q) \/ CommitEditRole(q) \/ Rollback(q)
    BY <2>5 DEF Commit, CommitAddRole, CommitEditRole, Rollback, Close
  <2> QED BY <2>1, <2>2, <2>3, <2>4, <2>5 DEF Step
<1> HIDE DEF Goto, At, tables, txn
<1> QED BY <1>1, OthersKept DEF InvClosed

\* A step of another request leaves a transaction that nothing overlaps as it
\* is, and the tables too: what would change them is open, and so overlaps.
LEMMA OtherStep ==
  ASSUME TwinInv, InvAlone, NEW q \in Reqs, ShowPage(q) \/ Step(q) \/ Rollback(q),
         NEW p \in Reqs \ {q}, pc'[p] \in Working, mates'[p] = {}
  PROVE  SoFar(p)'
<1> USE DEF TwinInv, OrphanInv
<1>1. /\ pc'[p] = pc[p] /\ form'[p] = form[p]
      /\ todo'[p] = todo[p] /\ seen'[p] = seen[p]
      /\ ins'[p] = ins[p] /\ del'[p] = del[p]
  BY OthersKept
<1>2. mates[p] = {}
  BY MatesStep
<1>3. pc[q] \notin Working
  BY <1>1, <1>2 DEF InvMates, Active
<1>4. ShowPage(q) \/ Statement(q)
  BY <1>3 DEF Step, Statement, Commit, CommitAddRole, CommitEditRole, At, Working
<1>5. UNCHANGED <<roleNam, rows>>
  BY <1>4, StatementFacts DEF ShowPage, tables
<1>6. SoFar(p)
  BY <1>1, <1>2 DEF InvAlone
<1>7. Roles' = Roles /\ RolesOf(form[p].usr)' = RolesOf(form[p].usr) /\ \A n : Named(n)' = Named(n)
  BY <1>1, <1>5 DEF Roles, RolesOf, Named
<1> QED BY <1>1, <1>5, <1>6, <1>7
        DEF SoFar, AddUsrRoleSoFar, DelUsrRoleSoFar, SaveReferSoFar, DelRoleFncSoFar, SaveRoleFuncSoFar

\* The invariant holds initially and every step keeps it.
LEMMA AloneInduction ==
  /\ Init => AloneInv
  /\ AloneInv /\ [Next]_vars => AloneInv'
<1>1. Init => AloneInv
  BY TwinInduction DEF Init, AloneInv, InvClosed, InvAlone, Working
<1>2. ASSUME AloneInv, NEW q \in Reqs, ShowPage(q) \/ Step(q) \/ Rollback(q)
      PROVE  AloneInv'
  <2>1. TwinInv /\ TwinInv' /\ TypeOK /\ TypeOK'
    BY <1>2, TwinInduction DEF AloneInv, TwinInv, OrphanInv, Next
  <2>2. InvClosed'
    BY <1>2, <2>1, ClosedStep DEF AloneInv
  <2>3. ASSUME NEW p \in Reqs, pc'[p] \in Working, mates'[p] = {}
        PROVE  SoFar(p)'
    <3>1. CASE p # q
      BY <3>1, <2>1, <2>3, <1>2, OtherStep DEF AloneInv
    <3>2. CASE p = q
      <4>1. mates[q] = {}
        BY <3>2, <2>1, <2>3, <1>2, MatesStep DEF TwinInv, OrphanInv
      <4>2. Statement(q)
        <5>1. ASSUME Close(q, "done") \/ Close(q, "failed") PROVE FALSE
          BY <5>1, <2>1, <2>3, <3>2, CloseFacts DEF Working
        <5>2. ~ ShowPage(q)
          BY <2>1, <2>3, <3>2 DEF ShowPage, TypeOK, Working
        <5> QED BY <5>1, <5>2, <1>2 DEF Step, Statement, Commit, CommitAddRole, CommitEditRole
      <4> QED BY <4>1, <4>2, <3>2, <2>1, <2>3, <1>2, OwnStep DEF AloneInv
    <3> QED BY <3>1, <3>2
  <2> QED BY <2>1, <2>2, <2>3 DEF AloneInv, InvAlone
<1>3. ASSUME AloneInv, UNCHANGED vars PROVE AloneInv'
  <2>1. TwinInv'
    BY <1>3, TwinInduction DEF AloneInv
  <2>2. Roles' = Roles /\ (\A u : RolesOf(u)' = RolesOf(u)) /\ (\A n : Named(n)' = Named(n))
    BY <1>3 DEF vars, Roles, RolesOf, Named
  <2>3. InvClosed'
    BY <1>3 DEF vars, AloneInv, InvClosed
  <2>4. InvAlone'
    BY <1>3, <2>2
       DEF vars, AloneInv, InvAlone, SoFar, AddUsrRoleSoFar, DelUsrRoleSoFar, SaveReferSoFar,
           DelRoleFncSoFar, SaveRoleFuncSoFar
  <2> QED BY <2>1, <2>3, <2>4 DEF AloneInv
<1> QED BY <1>1, <1>2, <1>3 DEF Next

\* What the commit of a transaction that nothing overlapped leaves.
LEMMA CommitOutcome ==
  ASSUME AloneInv, TypeOK', NEW q \in Reqs, Commit(q), mates[q] = {}
  PROVE  Outcome(q)
<1> USE DEF AloneInv, TwinInv, OrphanInv
<1> DEFINE f == form[q]
<1>1. /\ pc[q] = "commit"
      /\ form' = form
      /\ f.op \notin {"addRole", "editRole"}
      /\ rows' = (rows \ del[q]) \cup ins[q]
      /\ roleNam' = [r \in RoleIDs |-> IF r \in dropped[q] THEN Deleted ELSE roleNam[r]]
  BY DEF Commit
<1>2. SoFar(q) /\ f \in Form
  BY <1>1 DEF InvAlone, InvForm, Working
<1>3. \/ f.op = "addUsrRole" \/ f.op = "delUsrRole" \/ f.op = "saveRefer"
      \/ f.op = "delRoleFnc" \/ f.op = "saveRoleFunc"
  BY <1>1, <1>2 DEF Form
<1>4. CASE f.op = "addUsrRole"
  <2>1. f.role \in RolesOf(f.usr)'
    BY <1>4, <1>1, <1>2 DEF SoFar, AddUsrRoleSoFar, RolesOf
  <2> QED BY <2>1, <1>4 DEF Outcome
<1>5. CASE f.op = "delUsrRole"
  <2>1. ins[q] = {}
    BY <1>5 DEF InvTxn
  <2>2. f.role \notin RolesOf(f.usr)'
    BY <2>1, <1>5, <1>1, <1>2 DEF SoFar, DelUsrRoleSoFar, RolesOf
  <2> QED BY <2>2, <1>5 DEF Outcome
<1>6. CASE f.op = "saveRefer"
  <2>1. SaveReferSoFar(q) /\ todo[q] = {}
    BY <1>6, <1>1, <1>2 DEF SoFar, SaveReferSoFar
  <2>2. ASSUME NEW u \in f.usrs
        PROVE  RolesOf(u)' = seen[q]
    <3>1. \A x \in rows' : x.of = u => x \in ins[q] /\ x.role \in seen[q]
      BY <1>1, <2>1, <2>2 DEF SaveReferSoFar
    <3>2. \A r \in seen[q] : \E x \in rows' : x.role = r /\ x.of = u
      BY <1>1, <2>1, <2>2 DEF SaveReferSoFar
    <3> QED BY <3>1, <3>2 DEF RolesOf
  <2> QED BY <2>1, <2>2, <1>6 DEF Outcome, SaveReferSoFar
<1>7. CASE f.op = "delRoleFnc"
  <2>1. ins[q] = {}
    BY <1>7 DEF InvTxn
  <2>2. f.role \notin Roles'
    <3>1. f.role \in Roles => f.role \in dropped[q]
      BY <1>1, <1>7 DEF InvDrop, Working
    <3> QED BY <3>1, <1>1, RoleAuthAssumption DEF Roles
  <2>3. \A x \in rows' : x.role # f.role
    BY <2>1, <1>1, <1>2, <1>7 DEF SoFar, DelRoleFncSoFar, TypeOK, Row
  <2> QED BY <2>2, <2>3, <1>7 DEF Outcome
<1>8. CASE f.op = "saveRoleFunc"
  <2>1. SaveRoleFuncSoFar(q) /\ todo[q] = {} /\ f.funcs \subseteq FuncIDs
    BY <1>8, <1>1, <1>2, FormFuncs DEF SoFar, SaveRoleFuncSoFar
  <2>2. \A x \in rows' : (x.role = f.role /\ x.of \in FuncIDs) => x.of \in f.funcs
    BY <2>1, <1>1 DEF SaveRoleFuncSoFar
  <2>3. \A g \in f.funcs : \E x \in rows' : x.role = f.role /\ x.of = g
    BY <2>1, <1>1 DEF SaveRoleFuncSoFar
  <2>4. FuncsOf(f.role)' = f.funcs
    BY <2>1, <2>2, <2>3, <1>1 DEF FuncsOf, Commit
  <2> QED BY <2>4, <1>8 DEF Outcome
<1> QED BY <1>3, <1>4, <1>5, <1>6, <1>7, <1>8

\* What the commit of addRole or editRole leaves, when nothing overlapped it.
LEMMA CommitNamOutcome ==
  ASSUME AloneInv, TypeOK', NEW q \in Reqs, CommitAddRole(q) \/ CommitEditRole(q),
         pc'[q] = "done", mates[q] = {}
  PROVE  Outcome(q)
<1> USE DEF AloneInv, TwinInv, OrphanInv
<1> DEFINE f == form[q]
<1>1. /\ pc[q] = "commit"
      /\ form' = form
      /\ f.op = "addRole" \/ f.op = "editRole"
      /\ roleNam' = [roleNam EXCEPT ![f.role] = f.nam]
      /\ f.op = "editRole" => f.role \in Roles
  BY CloseFacts DEF CommitAddRole, CommitEditRole, At
<1>2. SoFar(q) /\ f \in Form
  BY <1>1 DEF InvAlone, InvForm, Working
<1>3. f.role \in RoleIDs /\ f.nam \in RoleNams
  BY <1>1, <1>2 DEF Form
<1>4. Named(f.nam)' = Named(f.nam) \cup {f.role}
  BY <1>1, <1>3 DEF Named, Roles, TypeOK
<1>5. CASE f.op = "addRole"
  BY <1>5, <1>2, <1>4 DEF SoFar, Outcome
<1>6. CASE f.op = "editRole"
  <2>1. /\ f.role \in Named(f.nam)'
        /\ Named(f.nam) \subseteq {f.role} => Named(f.nam)' = {f.role}
    BY <1>4
  <2> QED BY <2>1, <1>6 DEF Outcome
<1> QED BY <1>1, <1>5, <1>6

\* Theorem: a transaction that commits and that no other one overlapped leaves
\* what its service method is there for.
THEOREM AloneLeavesContract == Spec => AloneKeepsContract
<1> DEFINE Kept == \A q \in Reqs : (pc[q] = "commit" /\ pc'[q] = "done" /\ mates[q] = {}) => Outcome(q)
<1>1. AloneInv /\ AloneInv' /\ [Next]_vars => [Kept]_vars
  <2> SUFFICES ASSUME AloneInv, AloneInv', Next, NEW q \in Reqs,
                      pc[q] = "commit", pc'[q] = "done", mates[q] = {}
               PROVE  Outcome(q)
    OBVIOUS
  <2>1. TypeOK /\ TypeOK'
    BY DEF AloneInv, TwinInv, OrphanInv
  <2>2. PICK o \in Reqs : ShowPage(o) \/ Step(o) \/ Rollback(o)
    BY DEF Next
  <2>3. o = q
    BY <2>1, <2>2, OthersKept
  <2>4. Commit(q) \/ CommitAddRole(q) \/ CommitEditRole(q)
    <3>1. ASSUME Close(q, "failed") PROVE FALSE
      BY <3>1, <2>1, CloseFacts
    <3> QED BY <2>2, <2>3, <3>1
            DEF ShowPage, Step, Rollback, At, AddUsrRole, DelUsrRole, ReadRefer, ReferUsr, DelRole,
                DelRoleUsrs, DelRoleFuncs, ReadRoleFunc, DeleteRoleFunc, AddRole, FindRole, EditRoleNam
  <2> QED BY <2>1, <2>4, CommitOutcome, CommitNamOutcome
<1> QED BY <1>1, AloneInduction, PTL DEF Spec, AloneKeepsContract

=============================================================================
