-------------------------- MODULE UsrAccountProofs --------------------------
(* Proofs of the safety properties of UsrAccount, for any sets of users,     *)
(* codes, names, passwords, sessions and requests.                           *)
EXTENDS UsrAccount, TLAPS

(***************************************************************************)
(* Type correctness.                                                       *)
(***************************************************************************)

EditOps == {"writeOffUsr", "recoverUsr", "resetUsrPwd"}

\* The user of a request that changes one was there when its page was shown,
\* and users are never deleted.
InvForm == \A q \in Reqs : Op(q) \in EditOps \cup {"modifyUsr"} => form[q].usr \in Users

TypeInv == TypeOK /\ InvForm

\* A page shows parameters of the right type.
LEMMA PageFormsType ==
  ASSUME TypeOK
  PROVE  \A f \in PageForms : /\ f \in Form
                              /\ f.op \in EditOps \cup {"modifyUsr"} => f.usr \in Users
<1>1. \A u \in Users : usr[u] \in Usr
  <2> SUFFICES ASSUME NEW u \in UsrIDs, usr[u] # Null PROVE usr[u] \in Usr
    BY DEF Users
  <2>1. usr \in [UsrIDs -> Usr \cup {Null}]
    BY DEF TypeOK
  <2> QED BY <2>1
<1>2. \A u \in Users : Edited(u) \subseteq Usr
  <2> SUFFICES ASSUME NEW u \in Users, NEW r \in Edited(u) PROVE r \in Usr
    OBVIOUS
  <2>1. PICK c \in Cods, n \in Nams :
         r = [cod |-> c, nam |-> n, pwd |-> usr[u].pwd, sta |-> usr[u].sta, aut |-> Null]
    BY DEF Edited
  <2>2. usr[u] \in Usr
    BY <1>1
  <2> QED BY <2>1, <2>2 DEF Usr
<1>3. Users \subseteq UsrIDs /\ Fresh \subseteq UsrIDs
  BY DEF Users, Fresh
<1> QED BY <1>2, <1>3 DEF PageForms, Form, EditOps

\* What addUsr and modifyUsr save is a row.
LEMMA SavedType ==
  ASSUME NEW f \in Form, f.op \in {"addUsr", "modifyUsr"}
  PROVE  Saved(f) \in Usr /\ f.usr \in UsrIDs
  BY UsrAccountAssumption DEF Form, Saved, Usr

\* So is what the others make of the row they read.
LEMMA ChangedType ==
  ASSUME NEW f \in Form, f.op \in EditOps \cup {"modifyPwd"},
         NEW row \in Usr
  PROVE  Changed(f, row) \in Usr
  BY UsrAccountAssumption DEF Form, Changed, Usr, EditOps

\* Initially every variable has its type.
LEMMA InitType == Init => TypeInv
  BY DEF Init, TypeInv, TypeOK, InvForm, Op, NoForm, EditOps

\* A form is read from a request whose page was shown.
LEMMA FormShown ==
  ASSUME TypeOK, NEW q \in Reqs, Op(q) # "none"
  PROVE  form[q] \in Form
  BY DEF TypeOK, Op, NoForm

\* Reading an entity and changing it keeps the types.
LEMMA EditType ==
  ASSUME TypeOK, NEW q \in Reqs, NEW u \in Users, Edit(q, u),
         Op(q) \in EditOps \cup {"modifyPwd"}
  PROVE  /\ entity' \in [Reqs -> Entity \cup {Null}]
         /\ stale' \in [Reqs -> BOOLEAN]
         /\ pc' \in [Reqs -> {"idle", "page", "enter"} \cup Working \cup Ended]
<1>1. u \in UsrIDs /\ usr[u] \in Usr
  <2>1. usr \in [UsrIDs -> Usr \cup {Null}] /\ u \in UsrIDs /\ usr[u] # Null
    BY DEF TypeOK, Users
  <2> QED BY <2>1
<1>2. Changed(form[q], usr[u]) \in Usr
  BY <1>1, FormShown, ChangedType DEF Op, EditOps
<1>3. [usr |-> u, row |-> Changed(form[q], usr[u])] \in Entity
  BY <1>1, <1>2 DEF Entity
<1> QED BY <1>3 DEF Edit, TypeOK, Goto, Working

\* Every step of a request keeps the types.
LEMMA StepType ==
  ASSUME TypeInv, NEW q \in Reqs, Step(q)
  PROVE  TypeOK'
<1> USE DEF Goto, Working, Ended, TypeInv
<1>1. CASE ShowPage(q)
  BY <1>1, PageFormsType DEF ShowPage, TypeOK
<1>2. CASE CheckCod(q)
  BY <1>2 DEF CheckCod, Begin, Active, TypeOK
<1>3. CASE CheckNam(q)
  <2>1. Saved(form[q]) \in Usr /\ form[q].usr \in UsrIDs
    BY <1>3, SavedType, FormShown DEF CheckNam, Op
  <2> QED BY <1>3, <2>1 DEF CheckNam, TypeOK, Entity
<1>4. CASE FindUsr(q)
  <2>1. form[q].usr \in Users /\ Op(q) \in EditOps
    BY <1>4 DEF FindUsr, InvForm, EditOps
  <2> QED BY <1>4, <2>1, EditType DEF FindUsr, Begin, Active, TypeOK
<1>5. CASE ModifyPwd(q)
  <2>1. pc' \in [Reqs -> {"idle", "page", "enter"} \cup Working \cup Ended]
    BY <1>5, EditType DEF ModifyPwd, WithPwd, TypeOK
  <2>2. entity' \in [Reqs -> Entity \cup {Null}] /\ stale' \in [Reqs -> BOOLEAN]
    BY <1>5, EditType DEF ModifyPwd, WithPwd, TypeOK
  <2> QED BY <1>5, <2>1, <2>2 DEF ModifyPwd, Begin, Active, TypeOK
<1>6. CASE Commit(q)
  BY <1>6 DEF Commit, TypeOK, Entity, Reader
<1>7. CASE Rollback(q)
  BY <1>7 DEF Rollback, TypeOK
<1>8. CASE Login(q)
  BY <1>8, FormShown DEF Login, TypeOK, Op, LoginInfo, WithPwd, Users, Form
<1>9. CASE EnterSession(q)
  BY <1>9 DEF EnterSession, TypeOK
<1>10. CASE Logout(q)
  BY <1>10 DEF Logout, TypeOK
<1> QED BY <1>1, <1>2, <1>3, <1>4, <1>5, <1>6, <1>7, <1>8, <1>9, <1>10 DEF Step

\* No step takes a user away.
LEMMA UsersGrow ==
  ASSUME TypeInv, NEW q \in Reqs, Step(q)
  PROVE  Users \subseteq Users'
<1> USE DEF TypeInv, TypeOK, Users
<1>1. CASE Commit(q)
  BY <1>1, UsrAccountAssumption DEF Commit, Entity
<1>2. CASE ~ Commit(q)
  BY <1>2 DEF Step, ShowPage, CheckCod, CheckNam, FindUsr, ModifyPwd, Rollback, Login, EnterSession, Logout
<1> QED BY <1>1, <1>2

\* So forms keep naming users that are there.
LEMMA StepForm ==
  ASSUME TypeInv, NEW q \in Reqs, Step(q)
  PROVE  InvForm'
<1> USE DEF TypeInv, InvForm, Op
<1>1. CASE ShowPage(q)
  BY <1>1, PageFormsType, UsersGrow DEF ShowPage, TypeOK
<1>2. CASE ~ ShowPage(q)
  <2>1. form' = form
    BY <1>2 DEF Step, CheckCod, CheckNam, FindUsr, ModifyPwd, Commit, Rollback, Login, EnterSession, Logout
  <2> QED BY <2>1, UsersGrow
<1> QED BY <1>1, <1>2

\* The invariant holds initially and every step keeps it.
LEMMA TypeInduction ==
  /\ Init => TypeInv
  /\ TypeInv /\ [Next]_vars => TypeInv'
<1>1. ASSUME TypeInv, Expire PROVE TypeInv'
  BY <1>1 DEF Expire, TypeInv, TypeOK, InvForm, Users, Op
<1>2. ASSUME TypeInv, NEW q \in Reqs, Step(q) PROVE TypeInv'
  BY <1>2, StepType, StepForm DEF TypeInv
<1>3. ASSUME TypeInv, UNCHANGED vars PROVE TypeInv'
  BY <1>3 DEF vars, TypeInv, TypeOK, InvForm, Users, Op
<1> QED BY <1>1, <1>2, <1>3, InitType DEF Next

\* Theorem: in every reachable state the variables have their types.
THEOREM TypeCorrect == Spec => []TypeOK
<1>1. TypeInv => TypeOK  BY DEF TypeInv
<1> QED BY <1>1, TypeInduction, PTL DEF Spec

(***************************************************************************)
(* Rows in hand: what an open transaction will flush.                      *)
(***************************************************************************)

Open == {"page", "nam", "commit"}

\* No two requests add the same user, and none of them exists before it commits.
InvFresh ==
    /\ \A p, q \in Reqs : (p # q /\ Op(p) = "addUsr" /\ Op(q) = "addUsr")
                              => form[p].usr # form[q].usr
    /\ \A q \in Reqs : (Op(q) = "addUsr" /\ pc[q] \in Open) => usr[form[q].usr] = Null

\* An entity is held between the last read of a transaction and its end; it is
\* the row the operation is about.
EntityOK(q) ==
    /\ pc[q] = "nam" => Op(q) \in {"addUsr", "modifyUsr"}
    /\ entity[q] # Null => /\ pc[q] = "commit"
                           /\ Op(q) \in EditOps \cup {"addUsr", "modifyUsr", "modifyPwd"}
                           /\ Op(q) # "addUsr" => entity[q].usr \in Users
    /\ (Op(q) \in {"addUsr", "modifyUsr"} /\ entity[q] # Null)
          => entity[q].usr = form[q].usr /\ entity[q].row = Saved(form[q])
InvEntity == \A q \in Reqs : EntityOK(q)

\* Unless it is stale, it differs from the table in the columns of the
\* operation only.
ReadOK(q) ==
    ~ stale[q] =>
        /\ (Op(q) = "modifyUsr" /\ pc[q] \in Open)
              => /\ form[q].row.pwd = usr[form[q].usr].pwd
                 /\ form[q].row.sta = usr[form[q].usr].sta
                 /\ form[q].row.aut = Null
        /\ (Op(q) \in EditOps \cup {"modifyPwd"} /\ entity[q] # Null)
              => entity[q].row = Changed(form[q], usr[entity[q].usr])
InvRead == \A q \in Reqs : ReadOK(q)

OwnInv == TypeInv /\ InvFresh /\ InvEntity /\ InvRead

\* A step that leaves a request and the table alone keeps what is said of it.
LEMMA Untouched ==
  ASSUME OwnInv, UNCHANGED usr, NEW p \in Reqs,
         form'[p] = form[p], pc'[p] = pc[p], entity'[p] = entity[p], stale'[p] = stale[p]
  PROVE  EntityOK(p)' /\ ReadOK(p)'
<1>1. EntityOK(p) /\ ReadOK(p)
  BY DEF OwnInv, InvEntity, InvRead
<1>2. EntityOK(p)'
  BY <1>1 DEF EntityOK, Op, Users
<1>3. ReadOK(p)'
  BY <1>1 DEF ReadOK, Op
<1> QED BY <1>2, <1>3

\* Showing a page reads the table.
LEMMA PageOwn ==
  ASSUME OwnInv, NEW q \in Reqs, ShowPage(q)
  PROVE  InvFresh' /\ InvEntity' /\ InvRead'
<1> USE DEF OwnInv, TypeInv, TypeOK
<1>1. PICK f \in PageForms : form' = [form EXCEPT ![q] = f]
  BY DEF ShowPage
<1>2. /\ UNCHANGED <<usr, entity, stale>>
      /\ pc[q] = "idle" /\ pc'[q] = "page"
      /\ form'[q] = f
      /\ \A p \in Reqs \ {q} : form'[p] = form[p] /\ pc'[p] = pc[p]
  BY <1>1 DEF ShowPage
<1>3. f.op = "addUsr" => f.usr \in Fresh
  BY DEF PageForms
<1>4. f.op = "modifyUsr" => f.row \in Edited(f.usr)
  BY DEF PageForms
<1>5. InvFresh'
  BY <1>2, <1>3 DEF InvFresh, Fresh, Op, Users
<1>6. \A p \in Reqs \ {q} : EntityOK(p)' /\ ReadOK(p)'
  BY <1>2, Untouched
<1>7. entity[q] = Null
  BY <1>2 DEF InvEntity, EntityOK
<1>8. EntityOK(q)'
  BY <1>2, <1>7 DEF EntityOK
<1>9. ReadOK(q)'
  <2>1. f.op = "modifyUsr" => /\ f.row.pwd = usr[f.usr].pwd
                              /\ f.row.sta = usr[f.usr].sta
                              /\ f.row.aut = Null
    BY <1>4 DEF Edited
  <2> QED BY <1>2, <2>1, <1>7 DEF ReadOK, Op
<1> QED BY <1>5, <1>6, <1>8, <1>9 DEF InvEntity, InvRead

\* So does an operation that reads an entity and changes it.
LEMMA EditOwn ==
  ASSUME OwnInv, NEW q \in Reqs, FindUsr(q) \/ ModifyPwd(q)
  PROVE  InvFresh' /\ InvEntity' /\ InvRead'
<1> USE DEF OwnInv, TypeInv, TypeOK
<1>1. /\ UNCHANGED <<usr, form>>
      /\ pc[q] = "page" /\ pc'[q] \in {"commit", "failed"}
      /\ Op(q) \in EditOps \cup {"modifyPwd"}
      /\ \A p \in Reqs \ {q} : entity'[p] = entity[p] /\ stale'[p] = stale[p] /\ pc'[p] = pc[p]
  BY DEF FindUsr, ModifyPwd, Edit, EditOps, Goto
<1>2. \/ entity'[q] = Null
      \/ \E u \in Users : /\ entity'[q].usr = u
                          /\ entity'[q].row = Changed(form[q], usr[u])
                          /\ pc'[q] = "commit"
  <2>1. ASSUME NEW u \in Users, Edit(q, u)
        PROVE  \/ entity'[q] = Null
               \/ /\ entity'[q].usr = u
                  /\ entity'[q].row = Changed(form[q], usr[u])
                  /\ pc'[q] = "commit"
    BY <2>1 DEF Edit, Goto
  <2>2. CASE FindUsr(q)
    <3>1. Edit(q, form[q].usr) /\ form[q].usr \in Users
      BY <2>2 DEF FindUsr, InvForm, EditOps, Op
    <3> QED BY <3>1, <2>1
  <2>3. CASE ModifyPwd(q)
    <3>1. entity[q] = Null  BY <1>1 DEF InvEntity, EntityOK
    <3>2. UNCHANGED entity \/ \E u \in Users : Edit(q, u)
      BY <2>3 DEF ModifyPwd, WithPwd
    <3> QED BY <3>1, <3>2, <2>1
  <2> QED BY <2>2, <2>3
<1>3. InvFresh'
  BY <1>1 DEF InvFresh, Op, Open, EditOps
<1>4. \A p \in Reqs \ {q} : EntityOK(p)' /\ ReadOK(p)'
  BY <1>1, Untouched
<1>5. EntityOK(q)'
  BY <1>1, <1>2 DEF EntityOK, Op, Users, EditOps
<1>6. ReadOK(q)'
  BY <1>1, <1>2 DEF ReadOK, Op, EditOps
<1> QED BY <1>3, <1>4, <1>5, <1>6 DEF InvEntity, InvRead

\* And addUsr and modifyUsr, which hold the row of the page.
LEMMA SaveOwn ==
  ASSUME OwnInv, NEW q \in Reqs, CheckCod(q) \/ CheckNam(q)
  PROVE  InvFresh' /\ InvEntity' /\ InvRead'
<1> USE DEF OwnInv, TypeInv, TypeOK
<1>1. /\ UNCHANGED <<usr, form, stale>>
      /\ pc[q] \in {"page", "nam"}
      /\ Op(q) \in {"addUsr", "modifyUsr"}
      /\ pc'[q] \in {"nam", "commit", "failed"}
      /\ \A p \in Reqs \ {q} : entity'[p] = entity[p] /\ pc'[p] = pc[p]
  BY DEF CheckCod, CheckNam, Goto
<1>2. \/ entity'[q] = Null
      \/ /\ entity'[q] = [usr |-> form[q].usr, row |-> Saved(form[q])]
         /\ pc'[q] = "commit"
  <2>1. entity[q] = Null
    BY <1>1 DEF InvEntity, EntityOK
  <2> QED BY <2>1 DEF CheckCod, CheckNam, Goto
<1>3. InvFresh'
  BY <1>1 DEF InvFresh, Op, Open
<1>4. \A p \in Reqs \ {q} : EntityOK(p)' /\ ReadOK(p)'
  BY <1>1, Untouched
<1>5. EntityOK(q)'
  <2>1. Op(q) = "modifyUsr" => form[q].usr \in Users
    BY DEF InvForm, Op
  <2> QED BY <1>1, <1>2, <2>1 DEF EntityOK, Op, Users
<1>6. ReadOK(q)'
  BY <1>1 DEF ReadOK, InvRead, Op, Open, EditOps
<1> QED BY <1>3, <1>4, <1>5, <1>6 DEF InvEntity, InvRead

\* A commit makes the others that hold the row stale.
LEMMA CommitOwn ==
  ASSUME OwnInv, NEW q \in Reqs, Commit(q)
  PROVE  InvFresh' /\ InvEntity' /\ InvRead'
<1> USE DEF OwnInv, TypeInv, TypeOK
<1>1. /\ UNCHANGED form
      /\ pc[q] = "commit" /\ pc'[q] = "done"
      /\ entity'[q] = Null
      /\ \A p \in Reqs \ {q} : entity'[p] = entity[p] /\ pc'[p] = pc[p]
  BY DEF Commit, Goto
<1>2. EntityOK(q)' /\ ReadOK(q)'
  BY <1>1 DEF EntityOK, ReadOK, Open
<1>3. CASE entity[q] = Null
  <2>1. UNCHANGED <<usr, stale>>
    BY <1>3 DEF Commit
  <2>2. \A p \in Reqs \ {q} : EntityOK(p)' /\ ReadOK(p)'
    BY <1>1, <2>1, Untouched
  <2>3. InvFresh'
    BY <1>1, <2>1 DEF InvFresh, Op, Open
  <2> QED BY <1>2, <2>2, <2>3 DEF InvEntity, InvRead
<1>4. CASE entity[q] # Null
  <2> DEFINE w == entity[q].usr
  <2>1. /\ \A u \in UsrIDs \ {w} : usr'[u] = usr[u]
        /\ w \in UsrIDs
        /\ \A p \in Reqs \ {q} : Reader(p, w) => stale'[p]
        /\ \A p \in Reqs : stale[p] => stale'[p]
    BY <1>4 DEF Commit, Entity
  <2>2. Users \subseteq Users'
    BY UsersGrow DEF Step
  <2>3. ASSUME NEW p \in Reqs \ {q}, Op(p) = "addUsr", pc[p] \in Open
        PROVE  form[p].usr # w
    <3>1. usr[form[p].usr] = Null
      BY <2>3 DEF InvFresh
    <3>2. CASE Op(q) = "addUsr"
      BY <3>2, <2>3, <1>4 DEF InvFresh, InvEntity, EntityOK
    <3>3. CASE Op(q) # "addUsr"
      BY <3>1, <3>3, <1>4 DEF InvEntity, EntityOK, Users
    <3> QED BY <3>2, <3>3
  <2>4. InvFresh'
    <3>1. \A p \in Reqs : Op(p) = "addUsr" => form[p].usr \in UsrIDs
      BY FormShown DEF Op, Form
    <3> QED BY <1>1, <2>1, <2>3, <3>1 DEF InvFresh, Op, Open
  <2>5. ASSUME NEW p \in Reqs \ {q} PROVE EntityOK(p)'
    BY <1>1, <2>2 DEF InvEntity, EntityOK, Op
  <2>6. ASSUME NEW p \in Reqs \ {q} PROVE ReadOK(p)'
    <3>1. CASE stale'[p]
      BY <3>1 DEF ReadOK
    <3>2. CASE ~ stale'[p]
      <4>1. ~ stale[p] /\ ~ Reader(p, w)
        BY <2>1, <3>2
      <4>2. Op(p) = "modifyUsr" => form[p].usr \in UsrIDs /\ form[p].usr # w
        BY <4>1 DEF Reader, InvForm, Users, Op
      <4>3. entity[p] # Null => entity[p].usr \in UsrIDs /\ entity[p].usr # w
        <5>1. entity[p] # Null => entity[p] \in Entity  OBVIOUS
        <5> QED BY <4>1, <5>1 DEF Reader, Entity
      <4>4. ReadOK(p)
        BY DEF InvRead
      <4> QED BY <1>1, <4>1, <4>2, <4>3, <4>4, <2>1 DEF ReadOK, Op
    <3> QED BY <3>1, <3>2
  <2> QED BY <1>2, <2>4, <2>5, <2>6 DEF InvEntity, InvRead
<1> QED BY <1>3, <1>4

\* The rest holds no row.
LEMMA RestOwn ==
  ASSUME OwnInv, NEW q \in Reqs, Rollback(q) \/ Login(q) \/ EnterSession(q) \/ Logout(q)
  PROVE  InvFresh' /\ InvEntity' /\ InvRead'
<1> USE DEF OwnInv, TypeInv, TypeOK
<1>1. /\ UNCHANGED <<usr, form, stale>>
      /\ pc'[q] \in {"enter", "done", "failed"}
      /\ \A p \in Reqs \ {q} : entity'[p] = entity[p] /\ pc'[p] = pc[p]
  BY DEF Rollback, Login, EnterSession, Logout, Goto
<1>2. entity'[q] = Null
  BY DEF Rollback, Login, EnterSession, Logout, InvEntity, EntityOK
<1>3. InvFresh'
  BY <1>1 DEF InvFresh, Op, Open
<1>4. \A p \in Reqs \ {q} : EntityOK(p)' /\ ReadOK(p)'
  BY <1>1, Untouched
<1>5. EntityOK(q)' /\ ReadOK(q)'
  BY <1>1, <1>2 DEF EntityOK, ReadOK, Open
<1> QED BY <1>3, <1>4, <1>5 DEF InvEntity, InvRead

\* The invariant holds initially and every step keeps it.
LEMMA OwnInduction ==
  /\ Init => OwnInv
  /\ OwnInv /\ [Next]_vars => OwnInv'
<1>1. ASSUME Init PROVE OwnInv
  <2>1. TypeInv
    BY <1>1, TypeInduction
  <2>2. \A q \in Reqs : pc[q] = "idle" /\ Op(q) = "none" /\ entity[q] = Null
    BY <1>1 DEF Init, Op, NoForm
  <2> QED BY <2>1, <2>2 DEF OwnInv, InvFresh, InvEntity, EntityOK, InvRead, ReadOK, Open
<1>2. ASSUME OwnInv, NEW q \in Reqs, Step(q) PROVE OwnInv'
  <2>1. TypeInv'
    BY <1>2, TypeInduction DEF OwnInv, Next
  <2>2. InvFresh' /\ InvEntity' /\ InvRead'
    BY <1>2, PageOwn, EditOwn, SaveOwn, CommitOwn, RestOwn DEF Step
  <2> QED BY <2>1, <2>2 DEF OwnInv
<1>3. ASSUME OwnInv, Expire \/ UNCHANGED vars PROVE OwnInv'
  <2>1. TypeInv'
    BY <1>3, TypeInduction DEF OwnInv, Next
  <2>2. UNCHANGED <<usr, pc, form, entity, stale>>
    BY <1>3 DEF Expire, vars
  <2>3. InvEntity' /\ InvRead'
    BY <2>2, <1>3, Untouched DEF InvEntity, InvRead
  <2>4. InvFresh'
    BY <2>2, <1>3 DEF OwnInv, InvFresh, Op
  <2> QED BY <2>1, <2>3, <2>4 DEF OwnInv
<1> QED BY <1>1, <1>2, <1>3 DEF Next

\* What a commit that is not stale writes.
LEMMA CommitWrites ==
  ASSUME OwnInv, NEW q \in Reqs, Commit(q), ~ stale[q],
         NEW u \in UsrIDs, usr'[u] # usr[u]
  PROVE  entity[q] # Null /\ entity[q].usr = u /\ OwnColumns(form[q], usr[u], usr'[u])
<1> USE DEF OwnInv, TypeInv, TypeOK
<1>1. entity[q] # Null /\ entity[q].usr = u /\ usr'[u] = entity[q].row
  BY DEF Commit, Entity
<1>2. EntityOK(q) /\ ReadOK(q) /\ pc[q] = "commit"
  BY DEF InvEntity, InvRead, Commit
<1>3. Op(q) \in EditOps \cup {"addUsr", "modifyUsr", "modifyPwd"}
  BY <1>1, <1>2 DEF EntityOK
<1>4. CASE Op(q) = "addUsr"
  <2>1. usr[u] = Null
    BY <1>1, <1>2, <1>4 DEF InvFresh, EntityOK, Open
  <2>2. usr'[u] = Saved(form[q])
    BY <1>1, <1>2, <1>4 DEF EntityOK
  <2> QED BY <1>1, <1>4, <2>1, <2>2 DEF OwnColumns, Op
<1>5. CASE Op(q) = "modifyUsr"
  <2>1. form[q].usr = u /\ usr'[u] = form[q].row
    BY <1>1, <1>2, <1>5 DEF EntityOK, Saved, Op
  <2>2. u \in Users /\ entity[q] \in Entity
    BY <1>1, <1>2, <1>5 DEF EntityOK
  <2>3. usr[u] \in Usr /\ usr'[u] \in Usr
    BY <1>1, <2>2 DEF Entity, Users
  <2>4. /\ form[q].row.pwd = usr[u].pwd
        /\ form[q].row.sta = usr[u].sta
        /\ form[q].row.aut = Null
    BY <1>2, <1>5, <2>1 DEF ReadOK, Open
  <2>5. form[q].row = [usr[u] EXCEPT !.cod = form[q].row.cod, !.nam = form[q].row.nam, !.aut = Null]
    BY <2>1, <2>3, <2>4 DEF Usr
  <2> QED BY <1>1, <1>5, <2>1, <2>5 DEF OwnColumns, Op
<1>6. CASE Op(q) \in EditOps \cup {"modifyPwd"}
  <2>1. usr'[u] = Changed(form[q], usr[u])
    BY <1>1, <1>2, <1>6 DEF ReadOK
  <2>2. OwnColumns(form[q], usr[u], Changed(form[q], usr[u]))
    BY <1>6 DEF OwnColumns, Changed, Op, EditOps
  <2> QED BY <1>1, <2>1, <2>2
<1> QED BY <1>3, <1>4, <1>5, <1>6

\* Theorem: a commit changes the columns of its operation only, unless another
\* commit changed the row since the request read it.
THEOREM OnlyOwnColumns == Spec => OwnColumnsUnlessStale
<1>1. ASSUME OwnInv, NEW p \in Reqs, Step(p), NEW q \in Reqs,
             pc[q] = "commit", pc'[q] = "done"
      PROVE  Commit(q)
  <2> USE DEF OwnInv, TypeInv, TypeOK
  <2>1. p = q
    <3>1. \A r \in Reqs \ {p} : pc'[r] = pc[r]
      BY <1>1 DEF Step, ShowPage, CheckCod, CheckNam, FindUsr, ModifyPwd, Edit, Commit, Rollback,
                  Login, EnterSession, Logout, Goto
    <3> QED BY <1>1, <3>1
  <2>2. ~ Rollback(q)
    BY <1>1 DEF Rollback, Goto
  <2>3. Step(q) => Commit(q) \/ Rollback(q)
    BY <1>1 DEF Step, ShowPage, CheckCod, CheckNam, FindUsr, ModifyPwd, Login, EnterSession, Logout
  <2> QED BY <1>1, <2>1, <2>2, <2>3
<1>2. ASSUME OwnInv, [Next]_vars PROVE [OwnColumnsStep]_vars
  <2>1. CASE \E p \in Reqs : Step(p)
    BY <1>1, <1>2, <2>1, CommitWrites DEF OwnColumnsStep
  <2>2. CASE Expire
    BY <2>2 DEF OwnColumnsStep, Expire
  <2> QED BY <1>2, <2>1, <2>2 DEF Next
<1> QED BY <1>2, OwnInduction, PTL DEF Spec, OwnColumnsUnlessStale

(***************************************************************************)
(* Twins: users with the same code or name.                                *)
(***************************************************************************)

Twins == \E u, v \in Users : u # v /\ (usr[u].cod = usr[v].cod \/ usr[u].nam = usr[v].nam)

Overlapped == \E p, q \in Reqs : pc[p] = "done" /\ pc[q] = "done" /\ p \in mates[q]

\* Another transaction committed while this one ran.
Beaten(q) == \E p \in Reqs : pc[p] = "done" /\ p \in mates[q]

InvMates ==
    /\ \A p, q \in Reqs : p \in mates[q] => q \in mates[p]
    /\ \A p, q \in Active : p # q => p \in mates[q]
    /\ \A q \in Reqs : pc[q] \in {"idle", "page"} => mates[q] = {}

\* The row has a code and a name that nobody else has.
Clear(u, row) == \A v \in Users \ {u} : usr[v].cod # row.cod /\ usr[v].nam # row.nam

\* What a transaction that is not beaten has found still holds.
FoundOK(q) ==
    /\ pc[q] = "nam" => OtherWithCod(Saved(form[q]).cod, form[q].usr) = {}
    /\ entity[q] # Null => Clear(entity[q].usr, entity[q].row)

InvFound == \A q \in Reqs : Overlapped \/ Beaten(q) \/ FoundOK(q)
InvTwin  == Twins => Overlapped

TwinInv == OwnInv /\ InvMates /\ InvFound /\ InvTwin

\* A transaction is never forgotten by those it overlapped with.
LEMMA MatesStep ==
  ASSUME OwnInv, InvMates, NEW q \in Reqs, Step(q)
  PROVE  /\ InvMates'
         /\ \A p \in Reqs : mates[p] \subseteq mates'[p]
         /\ \A p \in Reqs : pc[p] = "done" => pc'[p] = "done"
         /\ \A p \in Reqs \ {q} : /\ form'[p] = form[p] /\ pc'[p] = pc[p]
                                  /\ entity'[p] = entity[p]
<1> USE DEF OwnInv, TypeInv, TypeOK
<1>1. \A p \in Reqs \ {q} : form'[p] = form[p] /\ pc'[p] = pc[p] /\ entity'[p] = entity[p]
  BY DEF Step, ShowPage, CheckCod, CheckNam, FindUsr, ModifyPwd, Edit, Commit, Rollback,
         Login, EnterSession, Logout, Goto
<1>2. pc[q] # "done"
  BY DEF Step, ShowPage, CheckCod, CheckNam, FindUsr, ModifyPwd, Commit, Rollback,
         Login, EnterSession, Logout, Working
<1>3. CASE CheckCod(q) \/ FindUsr(q) \/ ModifyPwd(q)
  <2>1. Begin(q) /\ q \notin Active /\ pc'[q] \notin {"idle", "page"}
    BY <1>3 DEF CheckCod, FindUsr, ModifyPwd, Edit, Goto, Active, Working
  <2>2. \A p \in Reqs : mates'[p] = IF p = q THEN Active
                                    ELSE IF p \in Active THEN mates[p] \cup {q}
                                    ELSE mates[p]
    BY <2>1 DEF Begin
  <2>3. Active' \subseteq Active \cup {q}
    BY <1>1 DEF Active
  <2>4. mates[q] = {}
    BY <1>3 DEF CheckCod, FindUsr, ModifyPwd, InvMates
  <2>5. \A p, r \in Reqs : p \in mates'[r] => r \in mates'[p]
    <3>1. ASSUME NEW p \in Reqs, NEW r \in Reqs, p \in mates'[r] PROVE r \in mates'[p]
      <4>1. CASE r = q
        BY <2>1, <2>2, <3>1, <4>1 DEF Active
      <4>2. CASE r # q /\ p = q
        <5>1. q \notin mates[r]
          BY <2>4 DEF InvMates
        <5>2. r \in Active
          BY <2>2, <3>1, <4>2, <5>1
        <5>3. mates'[q] = Active
          BY <2>2
        <5> QED BY <4>2, <5>2, <5>3
      <4>3. CASE r # q /\ p # q
        <5>1. p \in mates[r]
          BY <2>2, <3>1, <4>3
        <5>2. r \in mates[p]
          BY <5>1 DEF InvMates
        <5> QED BY <2>2, <4>3, <5>2
      <4> QED BY <4>1, <4>2, <4>3
    <3> QED BY <3>1
  <2>6. \A p, r \in Active' : p # r => p \in mates'[r]
    <3>1. Active' \subseteq Reqs
      BY DEF Active
    <3>2. \A p, r \in Active : p # r => p \in mates[r]
      BY DEF InvMates
    <3>3. ASSUME NEW p \in Active', NEW r \in Active', p # r PROVE p \in mates'[r]
      <4>1. CASE r = q
        BY <2>2, <2>3, <3>1, <3>3, <4>1
      <4>2. CASE r # q
        BY <2>2, <2>3, <3>1, <3>2, <3>3, <4>2
      <4> QED BY <4>1, <4>2
    <3> QED BY <3>3
  <2>7. \A p \in Reqs : pc'[p] \in {"idle", "page"} => mates'[p] = {}
    BY <1>1, <2>1, <2>2 DEF InvMates, Active, Working
  <2>8. InvMates'
    BY <2>5, <2>6, <2>7 DEF InvMates
  <2> QED BY <1>1, <1>2, <2>2, <2>4, <2>8
<1>4. CASE ~ (CheckCod(q) \/ FindUsr(q) \/ ModifyPwd(q))
  <2>1. /\ UNCHANGED mates
        /\ pc'[q] \in Working => pc[q] \in Working
        /\ pc'[q] \in {"idle", "page"} => pc[q] = "idle"
    BY <1>4 DEF Step, ShowPage, CheckNam, Commit, Rollback, Login, EnterSession, Logout, Goto, Working
  <2>2. Active' \subseteq Active
    BY <1>1, <2>1 DEF Active
  <2>3. InvMates'
    BY <1>1, <2>1, <2>2 DEF InvMates
  <2> QED BY <1>1, <1>2, <2>1, <2>3
<1> QED BY <1>3, <1>4
\* What a page or a failed transaction leaves is as it was.
LEMMA FoundUntouched ==
  ASSUME OwnInv, UNCHANGED usr, NEW p \in Reqs, FoundOK(p),
         form'[p] = form[p], pc'[p] = pc[p], entity'[p] = entity[p]
  PROVE  FoundOK(p)'
BY DEF FoundOK, OtherWithCod, Users, Clear

\* What a check or a read finds, with no twins in the table.
LEMMA FoundFresh ==
  ASSUME OwnInv, ~ Twins, NEW q \in Reqs, FoundOK(q),
         CheckCod(q) \/ CheckNam(q) \/ FindUsr(q) \/ ModifyPwd(q)
  PROVE  FoundOK(q)'
<1> USE DEF OwnInv, TypeInv, TypeOK
<1>1. UNCHANGED <<usr, form>>
  BY DEF CheckCod, CheckNam, FindUsr, ModifyPwd
<1>2. Users' = Users
  BY <1>1 DEF Users
<1>3. CASE CheckCod(q)
  <2>1. entity'[q] = Null
    BY <1>3 DEF CheckCod, InvEntity, EntityOK
  <2>2. pc'[q] = "nam" => OtherWithCod(Saved(form[q]).cod, form[q].usr) = {}
    BY <1>3 DEF CheckCod, Goto
  <2> QED BY <1>1, <1>2, <2>1, <2>2 DEF FoundOK, OtherWithCod
<1>4. CASE CheckNam(q)
  <2>1. pc'[q] # "nam"
    BY <1>4 DEF CheckNam, Goto
  <2>2. pc[q] = "nam" /\ entity[q] = Null
    BY <1>4 DEF CheckNam, InvEntity, EntityOK
  <2>3. entity'[q] # Null =>
            /\ entity'[q].usr = form[q].usr /\ entity'[q].row = Saved(form[q])
            /\ OtherWithNam(Saved(form[q]).nam, form[q].usr) = {}
    BY <1>4, <2>2 DEF CheckNam
  <2>4. OtherWithCod(Saved(form[q]).cod, form[q].usr) = {}
    BY <2>2 DEF FoundOK
  <2> QED BY <1>1, <1>2, <2>1, <2>3, <2>4 DEF FoundOK, OtherWithCod, OtherWithNam, Clear
<1>5. CASE FindUsr(q) \/ ModifyPwd(q)
  <2>1. pc'[q] # "nam" /\ entity[q] = Null
    BY <1>5 DEF FindUsr, ModifyPwd, Edit, Goto, InvEntity, EntityOK
  <2>2. UNCHANGED entity \/ \E u \in Users : Edit(q, u)
    BY <1>5 DEF FindUsr, ModifyPwd, WithPwd, InvForm, EditOps, Op
  <2>3. ASSUME NEW u \in Users, Edit(q, u), entity'[q] # Null
        PROVE  Clear(entity'[q].usr, entity'[q].row)
    <3>1. entity'[q].usr = u /\ entity'[q].row = Changed(form[q], usr[u])
      BY <2>3 DEF Edit
    <3>2. usr[u] \in Usr /\ Op(q) \in EditOps \cup {"modifyPwd"}
      BY <1>5 DEF Users, FindUsr, ModifyPwd, EditOps
    <3>3. LET row == Changed(form[q], usr[u])
          IN  row.cod = usr[u].cod /\ row.nam = usr[u].nam
      BY <3>2 DEF Changed, Usr, EditOps, Op
    <3> QED BY <3>1, <3>3 DEF Clear, Twins
  <2>4. entity'[q] # Null => Clear(entity'[q].usr, entity'[q].row)
    BY <2>1, <2>2, <2>3
  <2> QED BY <1>1, <1>2, <2>1, <2>4 DEF FoundOK, Clear
<1> QED BY <1>3, <1>4, <1>5

\* A commit that is not beaten makes no twins.
LEMMA CommitTwins ==
  ASSUME OwnInv, NEW q \in Reqs, Commit(q), FoundOK(q), Twins'
  PROVE  Twins
<1> USE DEF OwnInv, TypeInv, TypeOK
<1>1. CASE entity[q] = Null
  BY <1>1 DEF Commit, Twins, Users
<1>2. CASE entity[q] # Null
  <2> DEFINE w == entity[q].usr
  <2>1. /\ w \in UsrIDs /\ usr'[w] = entity[q].row
        /\ \A u \in UsrIDs \ {w} : usr'[u] = usr[u]
    BY <1>2 DEF Commit, Entity
  <2>2. Clear(w, entity[q].row)
    BY <1>2 DEF FoundOK
  <2>3. PICK u, v \in Users' : u # v /\ (usr'[u].cod = usr'[v].cod \/ usr'[u].nam = usr'[v].nam)
    BY DEF Twins
  <2>4. u \in UsrIDs /\ v \in UsrIDs
    BY DEF Users
  <2>5. (u # w => u \in Users) /\ (v # w => v \in Users)
    BY <2>1, <2>4 DEF Users
  <2>6. u # w
    BY <2>1, <2>2, <2>3, <2>4, <2>5 DEF Clear
  <2>7. v # w
    BY <2>1, <2>2, <2>3, <2>4, <2>5 DEF Clear
  <2> QED BY <2>1, <2>3, <2>4, <2>5, <2>6, <2>7 DEF Twins
<1> QED BY <1>1, <1>2

\* Every step of a request keeps the invariant.
LEMMA TwinStep ==
  ASSUME TwinInv, NEW q \in Reqs, Step(q)
  PROVE  InvMates' /\ InvFound' /\ InvTwin'
<1> USE DEF TwinInv
<1>1. /\ InvMates'
      /\ \A p \in Reqs : mates[p] \subseteq mates'[p]
      /\ \A p \in Reqs : pc[p] = "done" => pc'[p] = "done"
      /\ \A p \in Reqs \ {q} : form'[p] = form[p] /\ pc'[p] = pc[p] /\ entity'[p] = entity[p]
  BY MatesStep
<1>2. CASE Overlapped
  <2>1. Overlapped'
    BY <1>1, <1>2 DEF Overlapped
  <2> QED BY <1>1, <2>1 DEF InvFound, InvTwin
<1>3. CASE ~ Overlapped /\ Commit(q)
  <2>1. /\ pc[q] = "commit" /\ pc'[q] = "done" /\ entity'[q] = Null
    BY <1>3 DEF Commit, Goto, OwnInv, TypeInv, TypeOK
  <2>2. CASE Beaten(q)
    <3>1. Overlapped'
      BY <1>1, <2>1, <2>2 DEF Beaten, Overlapped
    <3> QED BY <1>1, <3>1 DEF InvFound, InvTwin
  <2>3. CASE ~ Beaten(q)
    <3>1. FoundOK(q) /\ ~ Twins
      BY <1>3, <2>3 DEF InvFound, InvTwin
    <3>2. InvTwin'
      BY <1>3, <3>1, CommitTwins DEF InvTwin
    <3>3. FoundOK(q)'
      BY <2>1 DEF FoundOK
    <3>4. ASSUME NEW p \in Reqs \ {q} PROVE Overlapped' \/ Beaten(p)' \/ FoundOK(p)'
      <4>1. CASE pc[p] \in Working
        <5>1. q \in mates[p]
          BY <2>1, <4>1 DEF InvMates, Active, Working
        <5> QED BY <1>1, <2>1, <5>1 DEF Beaten
      <4>2. CASE pc[p] \notin Working
        <5>1. entity[p] = Null
          BY <4>2 DEF OwnInv, InvEntity, EntityOK, Working
        <5> QED BY <1>1, <4>2, <5>1 DEF FoundOK, Working
      <4> QED BY <4>1, <4>2
    <3> QED BY <1>1, <3>2, <3>3, <3>4 DEF InvFound
  <2> QED BY <2>2, <2>3
<1>4. CASE ~ Overlapped /\ ~ Commit(q)
  <2>1. UNCHANGED usr /\ ~ Twins
    BY <1>4 DEF InvTwin, Step, ShowPage, CheckCod, CheckNam, FindUsr, ModifyPwd, Rollback,
                Login, EnterSession, Logout
  <2>2. InvTwin'
    BY <2>1 DEF InvTwin, Twins, Users
  <2>3. \A p \in Reqs : Beaten(p) => Beaten(p)'
    BY <1>1 DEF Beaten
  <2>4. ASSUME NEW p \in Reqs, FoundOK(p) PROVE FoundOK(p)'
    <3>1. CASE p # q
      BY <1>1, <2>1, <2>4, <3>1, FoundUntouched
    <3>2. CASE p = q /\ (CheckCod(q) \/ CheckNam(q) \/ FindUsr(q) \/ ModifyPwd(q))
      BY <2>1, <2>4, <3>2, FoundFresh
    <3>3. CASE p = q /\ ~ (CheckCod(q) \/ CheckNam(q) \/ FindUsr(q) \/ ModifyPwd(q))
      <4>1. pc'[q] # "nam"
        BY <1>4, <3>3 DEF Step, ShowPage, Rollback, Login, EnterSession, Logout, Goto,
                          OwnInv, TypeInv, TypeOK
      <4>2. entity'[q] = Null
        BY <1>4, <3>3 DEF Step, ShowPage, Rollback, Login, EnterSession, Logout,
                          OwnInv, TypeInv, TypeOK, InvEntity, EntityOK
      <4> QED BY <3>3, <4>1, <4>2 DEF FoundOK
    <3> QED BY <3>1, <3>2, <3>3
  <2> QED BY <1>1, <1>4, <2>2, <2>3, <2>4 DEF InvFound
<1> QED BY <1>2, <1>3, <1>4

\* Theorem: two users with one code or one name come from two transactions that
\* overlapped and both committed.
THEOREM TwinUsrs == Spec => []TwinUsrsOnlyFromOverlap
<1>1. Init => TwinInv
  <2> SUFFICES ASSUME Init PROVE TwinInv
    OBVIOUS
  <2>1. OwnInv
    BY OwnInduction
  <2>2. ~ Twins
    BY DEF Init, Twins
  <2>3. InvMates
    BY DEF Init, InvMates, Active, Working
  <2>4. InvFound
    BY DEF Init, InvFound, FoundOK
  <2> QED BY <2>1, <2>2, <2>3, <2>4 DEF TwinInv, InvTwin
<1>2. TwinInv /\ [Next]_vars => TwinInv'
  <2>1. ASSUME TwinInv, NEW q \in Reqs, Step(q) PROVE TwinInv'
    BY <2>1, TwinStep, OwnInduction DEF TwinInv, Next
  <2>2. ASSUME TwinInv, Expire \/ UNCHANGED vars PROVE TwinInv'
    <3>1. UNCHANGED <<usr, pc, form, entity, mates>>
      BY <2>2 DEF Expire, vars
    <3>2. OwnInv'
      BY <2>2, OwnInduction DEF TwinInv, Next
    <3>3. \A p \in Reqs : FoundOK(p) => FoundOK(p)'
      BY <2>2, <3>1, FoundUntouched DEF TwinInv
    <3>4. (InvMates /\ InvTwin)'
      BY <2>2, <3>1 DEF TwinInv, InvMates, Active, InvTwin, Twins, Users, Overlapped
    <3>5. InvFound'
      BY <2>2, <3>1, <3>3 DEF TwinInv, InvFound, Overlapped, Beaten
    <3> QED BY <3>2, <3>4, <3>5 DEF TwinInv
  <2> QED BY <2>1, <2>2 DEF Next
<1>3. TwinInv => TwinUsrsOnlyFromOverlap
  BY DEF TwinInv, InvTwin, Twins, Overlapped, TwinUsrsOnlyFromOverlap
<1> QED BY <1>1, <1>2, <1>3, PTL DEF Spec
====
