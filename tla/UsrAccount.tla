----------------------------- MODULE UsrAccount -----------------------------
(***************************************************************************)
(* User accounts: the table sys_usr as UserServiceImpl and UserDao use it, *)
(* and the login sessions of LoginController, which keep the code of the   *)
(* user who logged in.                                                     *)
(*                                                                         *)
(* Requests are as in RoleAuth: a page fixes the parameters, then one      *)
(* transaction runs statement by statement and reads what is committed.    *)
(* Hibernate writes back the whole row of an entity when it flushes it, at *)
(* the end of these transactions: the row posted by the page in modifyUsr, *)
(* the row read by the transaction, with one column changed, in the others.*)
(***************************************************************************)
CONSTANTS
    UsrIDs,     \* user IDs, the ones not handed out yet included
    Cods,       \* user codes, what a user logs in with
    Nams,       \* user names
    Pwds,       \* passwords (the table holds their hashes, compared with =)
    InitPwd,    \* the password of a new user and of a reset one
    BlankPwd,   \* a password of nothing but spaces
    Sessions,   \* HTTP sessions
    Reqs,       \* requests
    Null        \* no user, no session, no entity; NULL in a column

VARIABLES
    usr,        \* sys_usr: the row of each ID, or Null
    sess,       \* LOGIN_USER of each session, or Null
    pc,         \* what each request does next
    form,       \* the parameters each request was sent with
    entity,     \* the row each open transaction will flush, or Null
    logon,      \* the LoginInfo a login has yet to put in its session, or Null
    mates,      \* history: the requests whose transactions overlapped with each
    stale       \* history: another commit changed the row since it was read

vars == <<usr, sess, pc, form, entity, logon, mates, stale>>

-----------------------------------------------------------------------------
\* usrSta "1" is normal and "2" written off; aut is isOwnAllDatAut.
Usr == [cod : Cods, nam : Nams, pwd : Pwds, sta : {"1", "2"}, aut : {"0", "1", Null}]
LoginInfo == [usr : UsrIDs, cod : Cods]
Entity == [usr : UsrIDs, row : Usr]

ASSUME UsrAccountAssumption ==
    /\ {InitPwd, BlankPwd} \subseteq Pwds
    /\ InitPwd # BlankPwd
    /\ Null \notin Usr \cup LoginInfo \cup Entity

NoForm == [op |-> "none"]
Form ==
    [op : {"addUsr"}, usr : UsrIDs, cod : Cods, nam : Nams]
        \cup [op : {"modifyUsr"}, usr : UsrIDs, row : Usr]
        \cup [op : {"writeOffUsr", "recoverUsr", "resetUsrPwd"}, usr : UsrIDs]
        \cup [op : {"modifyPwd"}, sess : Sessions, oldPwd : Pwds, newPwd : Pwds, sure : Pwds]
        \cup [op : {"login"}, sess : Sessions, cod : Cods, pwd : Pwds]
        \cup [op : {"logout"}, sess : Sessions]

Working == {"nam", "commit"}
Ended   == {"done", "failed"}

Users  == {u \in UsrIDs : usr[u] # Null}
Active == {q \in Reqs : pc[q] \in Working}

\* The ID of a new user is a UUID, drawn here when its page is shown.
Fresh ==
    {u \in UsrIDs \ Users :
        \A q \in Reqs : form[q].op = "addUsr" => form[q].usr # u}

-----------------------------------------------------------------------------
(* Pages.                                                                    *)

\* Faulty: without the hidden usrSta, which then takes its default.
EditedUnhidden(u) ==
    {[cod |-> c, nam |-> n, pwd |-> usr[u].pwd, sta |-> "1", aut |-> Null] :
        c \in Cods, n \in Nams}

\* modifyusr.jsp is filled with the row of the user and posts it back, with
\* the code and the name typed over, usrPwd and usrSta hidden, and no field
\* for isOwnAllDatAut.
Edited(u) ==
    {[cod |-> c, nam |-> n, pwd |-> usr[u].pwd, sta |-> usr[u].sta, aut |-> Null] :
        c \in Cods, n \in Nams}

PageForms ==
    [op : {"addUsr"}, usr : Fresh, cod : Cods, nam : Nams]
        \cup (UNION {[op : {"modifyUsr"}, usr : {u}, row : Edited(u)] : u \in Users})
        \cup [op : {"writeOffUsr", "recoverUsr", "resetUsrPwd"}, usr : Users]
        \cup [op : {"modifyPwd"}, sess : {s \in Sessions : sess[s] # Null},
              oldPwd : Pwds, newPwd : Pwds, sure : Pwds]
        \cup [op : {"login"}, sess : Sessions, cod : Cods, pwd : Pwds]
        \cup [op : {"logout"}, sess : Sessions]

ShowPage(q) ==
    /\ pc[q] = "idle"
    /\ \E f \in PageForms : form' = [form EXCEPT ![q] = f]
    /\ pc' = [pc EXCEPT ![q] = "page"]
    /\ UNCHANGED <<usr, sess, entity, logon, mates, stale>>

-----------------------------------------------------------------------------
(* Transactions.                                                             *)

Begin(q) ==
    mates' = [p \in Reqs |-> IF p = q THEN Active
                             ELSE IF p \in Active THEN mates[p] \cup {q}
                             ELSE mates[p]]

Op(q)         == form[q].op
Goto(q, next) == pc' = [pc EXCEPT ![q] = next]

\* queryUsrByCod and queryUsrByNam: who else has the code, or the name.
OtherWithCod(c, u) == {v \in Users \ {u} : usr[v].cod = c}
OtherWithNam(n, u) == {v \in Users \ {u} : usr[v].nam = n}

\* Faulty: addUsr saves the row of its page, which has no password.
SavedAsPosted(f) ==
    IF f.op = "addUsr"
    THEN [cod |-> f.cod, nam |-> f.nam, pwd |-> Null, sta |-> "1", aut |-> "0"]
    ELSE f.row

\* The row addUsr or modifyUsr saves; addUsr saves no row that exists, so
\* leaving out its own ID from the check for others changes nothing.
Saved(f) ==
    IF f.op = "addUsr"
    THEN [cod |-> f.cod, nam |-> f.nam, pwd |-> InitPwd, sta |-> "1", aut |-> "0"]
    ELSE f.row

\* Faulty: modifyUsr looks for the code it has, not for the posted one.
CheckCodOld(q) ==
    /\ pc[q] = "page" /\ Op(q) \in {"addUsr", "modifyUsr"}
    /\ LET u == form[q].usr
           c == IF Op(q) = "addUsr" THEN form[q].cod ELSE usr[u].cod
       IN  Goto(q, IF OtherWithCod(c, u) = {} THEN "nam" ELSE "failed")
    /\ Begin(q)
    /\ UNCHANGED <<usr, sess, form, entity, logon, stale>>

CheckCod(q) ==
    /\ pc[q] = "page" /\ Op(q) \in {"addUsr", "modifyUsr"}
    /\ Goto(q, IF OtherWithCod(Saved(form[q]).cod, form[q].usr) = {} THEN "nam" ELSE "failed")
    /\ Begin(q)
    /\ UNCHANGED <<usr, sess, form, entity, logon, stale>>

CheckNam(q) ==
    /\ pc[q] = "nam" /\ Op(q) \in {"addUsr", "modifyUsr"}
    /\ LET f == form[q] IN
       IF OtherWithNam(Saved(f).nam, f.usr) = {}
       THEN /\ entity' = [entity EXCEPT ![q] = [usr |-> f.usr, row |-> Saved(f)]]
            /\ Goto(q, "commit")
       ELSE UNCHANGED entity /\ Goto(q, "failed")
    /\ UNCHANGED <<usr, sess, form, logon, mates, stale>>

\* What the service sets in the entity it has read.
Changed(f, row) ==
    CASE f.op = "writeOffUsr" -> [row EXCEPT !.sta = "2"]
      [] f.op = "recoverUsr"  -> [row EXCEPT !.sta = "1"]
      [] f.op = "resetUsrPwd" -> [row EXCEPT !.pwd = InitPwd]
      [] f.op = "modifyPwd"   -> [row EXCEPT !.pwd = f.newPwd]

\* The entity of user u is read, changed, and flushed at the end if it differs.
Edit(q, u) ==
    LET row == Changed(form[q], usr[u]) IN
    /\ entity' = [entity EXCEPT ![q] = IF row = usr[u] THEN Null
                                       ELSE [usr |-> u, row |-> row]]
    /\ stale' = [stale EXCEPT ![q] = FALSE]
    /\ Goto(q, "commit")

\* writeOffUsr, recoverUsr, resetUsrPwd.
FindUsr(q) ==
    /\ pc[q] = "page" /\ Op(q) \in {"writeOffUsr", "recoverUsr", "resetUsrPwd"}
    /\ Edit(q, form[q].usr)
    /\ Begin(q)
    /\ UNCHANGED <<usr, sess, form, logon>>

\* UserDao.getUserByNoPwd.
WithPwd(c, p) == {u \in Users : usr[u].cod = c /\ usr[u].pwd = p}

\* UserController.modifyPwd and UserServiceImpl.modifyPwd: the user is the one
\* who has the session's code now.
ModifyPwd(q) ==
    /\ pc[q] = "page" /\ Op(q) = "modifyPwd"
    /\ LET f == form[q]
           found == IF sess[f.sess] = Null THEN {} ELSE WithPwd(sess[f.sess].cod, f.oldPwd)
       IN  \/ /\ f.oldPwd # BlankPwd /\ f.newPwd = f.sure
              /\ \E u \in found : found = {u} /\ Edit(q, u)
           \/ /\ f.oldPwd = BlankPwd \/ f.newPwd # f.sure \/ \A u \in found : found # {u}
              /\ Goto(q, "failed")
              /\ UNCHANGED <<entity, stale>>
    /\ Begin(q)
    /\ UNCHANGED <<usr, sess, form, logon>>

\* The row is written as a whole; those that have read it are stale now.
Reader(p, u) ==
    \/ Op(p) = "modifyUsr" /\ form[p].usr = u
    \/ entity[p] # Null /\ entity[p].usr = u

Commit(q) ==
    /\ pc[q] = "commit"
    /\ IF entity[q] = Null THEN UNCHANGED <<usr, stale>>
       ELSE LET e == entity[q] IN
            /\ usr' = [usr EXCEPT ![e.usr] = e.row]
            /\ stale' = [p \in Reqs |-> stale[p] \/ (p # q /\ Reader(p, e.usr))]
    /\ entity' = [entity EXCEPT ![q] = Null]
    /\ Goto(q, "done")
    /\ UNCHANGED <<sess, form, logon, mates>>

Rollback(q) ==
    /\ pc[q] \in Working
    /\ entity' = [entity EXCEPT ![q] = Null]
    /\ Goto(q, "failed")
    /\ UNCHANGED <<usr, sess, form, logon, mates, stale>>

-----------------------------------------------------------------------------
(* Sessions (LoginController).                                               *)

\* The password is checked and the user read; the session is filled after the
\* roles and functions of the user have been read too.
Login(q) ==
    /\ pc[q] = "page" /\ Op(q) = "login"
    /\ LET f == form[q]
           found == WithPwd(f.cod, f.pwd)
           right(u) == /\ f.pwd # BlankPwd
                       /\ sess[f.sess] # Null => sess[f.sess].cod = f.cod
                       /\ found = {u} /\ usr[u].sta = "1"
       IN  \/ \E u \in found :
                /\ right(u)
                /\ logon' = [logon EXCEPT ![q] = [usr |-> u, cod |-> f.cod]]
                /\ Goto(q, "enter")
           \/ (\A u \in found : ~ right(u)) /\ Goto(q, "failed") /\ UNCHANGED logon
    /\ UNCHANGED <<usr, sess, form, entity, mates, stale>>

EnterSession(q) ==
    /\ pc[q] = "enter"
    /\ \/ /\ sess' = [sess EXCEPT ![form[q].sess] = logon[q]]
          /\ Goto(q, "done")
       \/ UNCHANGED sess /\ Goto(q, "failed")
    /\ logon' = [logon EXCEPT ![q] = Null]
    /\ UNCHANGED <<usr, form, entity, mates, stale>>

Logout(q) ==
    /\ pc[q] = "page" /\ Op(q) = "logout"
    /\ sess' = [sess EXCEPT ![form[q].sess] = Null]
    /\ Goto(q, "done")
    /\ UNCHANGED <<usr, form, entity, logon, mates, stale>>

\* The container drops a session that has been idle for long.
Expire ==
    /\ \E s \in Sessions : sess[s] # Null /\ sess' = [sess EXCEPT ![s] = Null]
    /\ UNCHANGED <<usr, pc, form, entity, logon, mates, stale>>

-----------------------------------------------------------------------------
Init ==
    /\ usr \in [UsrIDs -> Usr \cup {Null}]
    /\ \A u, v \in Users : (usr[u].cod = usr[v].cod \/ usr[u].nam = usr[v].nam) => u = v
    /\ sess   = [s \in Sessions |-> Null]
    /\ pc     = [q \in Reqs |-> "idle"]
    /\ form   = [q \in Reqs |-> NoForm]
    /\ entity = [q \in Reqs |-> Null]
    /\ logon  = [q \in Reqs |-> Null]
    /\ mates  = [q \in Reqs |-> {}]
    /\ stale  = [q \in Reqs |-> FALSE]

Step(q) ==
    \/ ShowPage(q)
    \/ CheckCod(q)
    \/ CheckNam(q)
    \/ FindUsr(q)
    \/ ModifyPwd(q)
    \/ Commit(q)
    \/ Rollback(q)
    \/ Login(q)
    \/ EnterSession(q)
    \/ Logout(q)

Next == Expire \/ \E q \in Reqs : Step(q)

Spec == Init /\ [][Next]_vars

-----------------------------------------------------------------------------
(* Properties.                                                               *)

\* The variables have their types.
TypeOK ==
    /\ usr \in [UsrIDs -> Usr \cup {Null}]
    /\ sess \in [Sessions -> LoginInfo \cup {Null}]
    /\ pc \in [Reqs -> {"idle", "page", "enter"} \cup Working \cup Ended]
    /\ form \in [Reqs -> Form \cup {NoForm}]
    /\ entity \in [Reqs -> Entity \cup {Null}]
    /\ logon \in [Reqs -> LoginInfo \cup {Null}]
    /\ mates \in [Reqs -> SUBSET Reqs]
    /\ stale \in [Reqs -> BOOLEAN]

\* Two users with the same code, or the same name, come from transactions that
\* overlapped and both committed: addUsr and modifyUsr look for the code and
\* the name first, and no other operation changes them, but an operation that
\* writes back the row it read can bring an old code or name back.
TwinUsrsOnlyFromOverlap ==
    (\E u, v \in Users : u # v /\ (usr[u].cod = usr[v].cod \/ usr[u].nam = usr[v].nam))
        => \E p, q \in Reqs : pc[p] = "done" /\ pc[q] = "done" /\ p \in mates[q]

\* The columns each operation is about; modifyUsr is not about isOwnAllDatAut,
\* but its page has no field for it and the column ends up NULL.
OwnColumns(f, old, new) ==
    CASE f.op = "modifyUsr"   -> new = [old EXCEPT !.cod = f.row.cod, !.nam = f.row.nam, !.aut = Null]
      [] f.op = "writeOffUsr" -> new = [old EXCEPT !.sta = "2"]
      [] f.op = "recoverUsr"  -> new = [old EXCEPT !.sta = "1"]
      [] f.op = "resetUsrPwd" -> new = [old EXCEPT !.pwd = InitPwd]
      [] f.op = "modifyPwd"   -> new = [old EXCEPT !.pwd = f.newPwd]
      [] OTHER                -> old = Null /\ new = Saved(f)

OwnColumnsStep ==
    \A q \in Reqs : (pc[q] = "commit" /\ pc'[q] = "done" /\ ~ stale[q]) =>
        \A u \in UsrIDs : usr'[u] # usr[u] =>
            entity[q] # Null /\ entity[q].usr = u /\ OwnColumns(form[q], usr[u], usr'[u])

\* A commit changes the row of one user and there only the columns of its
\* operation (a write-off, a recovery or a new password is not undone, nor a
\* code or a name), unless another commit changed that row since this request
\* read it: for modifyUsr, since its page was shown.
OwnColumnsUnlessStale == [][OwnColumnsStep]_vars

\* "The new password must not be empty" (UserController.java:127).
NewPwdNotBlank == \A u \in Users : usr[u].pwd # BlankPwd

\* modifyPwd is for the "current logged-in user" (UserController.java:132).
OwnPwdOnly ==
    [][\A q \in Reqs : (Op(q) = "modifyPwd" /\ entity'[q] # Null /\ entity[q] = Null)
           => entity'[q].usr = sess[form[q].sess].usr]_vars
=============================================================================
