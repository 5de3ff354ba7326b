# A TLA+ project for resarv

resarv is a Java web application framework (Spring MVC, Hibernate, Oracle) with
the administration every such system has: users, roles and permissions, an
organisation tree, dictionaries, and file storage on local disk, FTP or
FastDFS. The larger half of its code is the front end: the pages, the widgets
of EasyUI as the project keeps and extends them, and `control.js`, which opens
tabs and windows and posts to the server. What is hard to test is what several
requests do at once, what a page still knows of a row that has changed since,
what a failure leaves behind on something that is used again (a table, a
session, a pooled connection), and in a page what happens when answers, timers
and clicks come in another order than the one they were written for. The
modules here are about that.

Paths of Java files below are relative to `src/main/java/com/hitoo/`, those of
scripts to `src/main/webapp/static/`, those of pages to `src/main/webapp/WEB-INF/`. `PROJECT.json` lists components, runs, mutants, hazards, findings,
theorems, and for each definition the lines of source it stands for.

## 1. Inventory

| Component | State | Operations | Talks to | What makes it correct |
|---|---|---|---|---|
| Roles and permissions (`sys/role`) | `sys_role`, `sys_usr_role`, `sys_role_func` | add, edit, delete a role; save its functions | user accounts share `sys_usr_role`; login reads all three | no row refers to a deleted role; nothing is given twice; a role name is borne by one role |
| User accounts (`sys/usr`) | `sys_usr` | add, modify, write off, recover, reset and change the password; give and take a role; copy the roles of a user | roles; login; sessions | codes and names are unique; an operation does not undo another one |
| Login sessions (`LoginController`, `LoginInfo`) | one `LoginInfo` per HTTP session: user, code, roles, URLs, buttons | login, logout, expiry | accounts and roles, in five transactions; interceptors; `modifyPwd` | a session stands for the user who logged in and what he may do |
| Interceptors (`frame/pub/interceptor`) | none | test of the session, test of the URL (commented out in `mvc-config.xml`) | sessions | no handler runs without a login |
| FTP pool and storage (`FtpPool`, `FtpStorage`) | a static pool field, the pool's idle and active connections, the state of each connection, the server's files | store, replace, load, delete | FTP server; every upload and download handler | a connection is used by one request, comes back, and comes back in a state in which it can be used again |
| FastDFS pool and storage | the same with another kind of connection | upload, download, delete, replace | tracker and storage servers | as above; a replaced file is either the old or the new one |
| Local storage, `StorageFactory` | files | store, load, delete | disk | a stored file is whole |
| Dictionary (`sys/dic`) | `sys_dic`, `sys_dic_dtl` | add, edit, delete a dictionary or an item | cache | base dictionaries do not change; codes and names are unique; no item without its dictionary |
| Dictionary cache (`DicLoader`) | two attributes of the servlet context | load, look up | dictionary; the lists of every form | shows what the latest reload has read |
| Organisation tree (`sys/org`) | `sys_org`, the organisation of a user | add, modify, delete | users refer to it; `TreeUtil` builds it | codes and names are unique; nobody is left in an organisation that is gone; the tree shows what leads up to its root |
| Tree algorithms (`TreeUtil`), paging (`SplitPage`) | none | build, sort, merge trees; rows of a page | organisation, functions, roles | every node once, under its parent; rows in range |
| Session parameters (`GlobalController`, `CacheParamHelper`) | a map in the session | put under a new key, take once | pages | a key is used once |
| Transactions (`app-config.xml`, `BaseDAO`, `CommonDao`) | database transactions, Hibernate sessions | begin, flush, commit, roll back | all services | all or nothing |
| Downloads, parameters, utilities | none of their own | reads | | |
| Data grid (`jquery.datagrid.js`, `jquery.pagination.js`, `easyui-extend-datagrid.js`) | rows, selected and ticked rows of all pages, edit log, requests under way | load, page, query, select, tick, edit, accept, reject | the server's paged queries; the list pages | looks agree with what is remembered; the pager tells what is shown; rejecting restores |
| Tree and role page (`jquery.tree.js`, `roleindex.jsp`) | nodes, boxes, what is open, loads under way | open, tick, move, append, remove; save the ticks of a role | `RoleServiceImpl.queryRoleFunc`, `saveRoleFunc` | boxes cascade; the ticks saved are those of the role selected |
| Page frame (`control.js`, tabs, windows, messages, buttons) | tabs and their history, the one window, posts under way, buttons switched off | open and close tabs and windows, post, call back | session test of the server; every page | one tab in front; a window shows what was asked for last; a post comes back to its page |
| Fields and forms (combo, number, date and search boxes, `jquery.form.js`, validation) | text, hidden values, list below, timers | type, pick, set, reset, check, fill, submit | pages; dictionaries | what is shown is what is sent; what is sent was checked |
| Lists and boxes (tree grid, footer, dragging, layout, accordion, menus, resizing, columns) | rows and rows below, sizes, slides | load, append, tick, drag, expand, collapse, resize | pages | what is kept is shown; boxes fill what they are in |
| `fastsource/` (FastDFS client), other scripts | vendored | | | |

How they interact: a page (JSP) is loaded with data from the tables and later
posts a request; the handler of a controller calls one method of a service;
every method of a service is one transaction (`app-config.xml:91-110`, any
exception rolls back); the DAO sends statements, and Hibernate writes changed
entities back as whole rows when it flushes (before every query and at the
commit). Nothing is locked by the application, there is no version column, and
the tables have no unique keys that the code relies on. The pools are static
fields without synchronisation; the caches are attributes of the session or of
the servlet context. In the browser everything runs on one thread, but in
pieces: handlers of events, answers of requests (in any order, or never) and
timers (200 ms between two looks at a box, 200 or 400 ms after a key, the length
of a slide), each of which goes by what an earlier one has left.

The behaviours that are hard: overlapping transactions that look before they
insert; pages that post what they were filled with; deletions in several
statements; deadlocks of row locks; sessions that outlive what they know;
creation of a singleton without a lock; connections that go back to a pool in
whatever state a failure left them; commands and replies out of step; waiting
without a time limit; a cache that is read and set at two times; answers that
are overtaken, late or for something that is gone; values that are typed and
take effect later; undoing what was done in any order. `PROJECT.json` lists them at their lines.

## 2. Order of the work

The administration tables first, since everything depends on them, then the
storages, then what the pages do with them, which is most of the code, then the
remaining tables.

| Step | Modules | State |
|---|---|---|
| 1 | `RoleAuth`: roles, their users and functions | checked, proved |
| 2 | `UsrAccount`: accounts and login | checked, proved |
| 3 | `ObjectPool`, `PoolUse`, `FtpStorage`: pool, its abstract use, FTP | checked, proved |
| 4 | `IdleLinksReady` and the types of `FtpStorage` | proved |
| 5 | `DataGrid`: the grid of every list page | checked, proved |
| 6 | `Tabs`, `Window`, `Posts`, composed in `Parts` | checked, proved |
| 7 | `Dictionary`: tables and cache, in `Parts` | checked, proved |
| 8 | `Org`: organisations, their users, `TreeUtil`, in `Parts` | checked, proved |
| 9 | `SearchBox`, `EditForm`, `Checked`, `GridTools`, `TreeGridCheck`, `Resizing`, in `Parts` | checked, proved |
| 10 | `Tree`, `RolePage` and twelve modules for fields, forms, lists and boxes | checked |

Dropped on the way, because the code has nothing to say about them (section 7):
`FastDFSStorage` beyond its pool, `LocalStorage`, a composition of accounts and
roles through what a session keeps, `CacheParamHelper` and `SplitPage`.

## 3. The modules

### RoleAuth

A *request* has two parts. It starts when a page is shown, which fixes its
parameters (`ShowPage`, `PageForms`: what a page offers is what is committed
then, and never the built-in role), and later runs one transaction. Each
statement of the service method is an action:

| Code | Actions |
|---|---|
| `UserServiceImpl.changeRoleForUsr` | `AddUsrRole`, `DelUsrRole` |
| `UserServiceImpl.saveRefer` | `ReadRefer`, `ReferUsr` (once per user of the list) |
| `RoleDao.delRoleFncAndRelation` | `DelRole`, `DelRoleUsrs`, `DelRoleFuncs` |
| `RoleServiceImpl.saveRoleFunc` | `ReadRoleFunc`, `DeleteRoleFunc` (once per function) |
| `RoleServiceImpl.addRole`, `editRole` | `AddRole`, `CommitAddRole`; `FindRole`, `EditRoleNam`, `CommitEditRole` |
| transaction advice, Oracle | `Commit`, `Rollback`, `BreakDeadlock` |

`roleNam` is `sys_role`; `rows` holds `sys_usr_role` and `sys_role_func`
together, as triples of role, user or function, and the request that inserted
them, which stands for the primary key (a UUID). `ins`, `del` and `dropped` are
what an open transaction has inserted and deleted: reads see what is committed
(READ COMMITTED), a DELETE waits for rows another transaction has deleted, and
`Commit` makes all of it visible at once. An INSERT of a row that depends on a
query is one step with that query: no other transaction can see or change
anything in between that would make a difference, since inserts are invisible
until the commit. `mates` and `gone` are history: with whom a transaction
overlapped, and which roles were deleted while a request was under way.

### UsrAccount

The table `sys_usr` as rows of code, name, password, state and
`isOwnAllDatAut` (the columns some operation is about; the other columns are
written by `addUsr` and `modifyUsr` only and behave like the name, without its
check). `Edited` is the row a page posts to `modifyUsr`: the row it was filled
with, code and name typed over, and NULL in `isOwnAllDatAut`, for which
`modifyusr.jsp` has no field (line 24 posts it as `startDataAuthority`).
`CheckCod` and `CheckNam` are the two queries of `addUsr` and `modifyUsr`,
`FindUsr` and `ModifyPwd` read an entity and change one column (`Changed`), and
`Commit` flushes the entity as a whole row: Hibernate's update names all
columns. `Login` and `EnterSession` are `LoginController.login`, which checks
the password in one transaction and fills the session after four more.
`stale` is history: another commit changed the row since this request (for
`modifyUsr`, its page) read it.

### ObjectPool, PoolUse

`ObjectPool` has the operations of a static field with a `GenericObjectPool`
(commons-pool 1.5.4) as `FtpPool` and `FastDFSPool` use it: `FindPool` and
`CreatePool` are the unsynchronised `getInstance`; `EnterPool` reads the field
again, as `getResource` does; `TakeIdle`, `MakeClient` and `MakeFails` are
`borrowObject` (the idle connection returned last, or a new one if fewer than
`MaxActive` are out); `GiveBack` is `returnObject` on the pool that is in the
field then. The pool itself is external: it is modelled from its documented
behaviour under the configuration of `FtpPool.java:35-39`.
`PoolUse` is the abstract specification of a storage: borrow, use, whatever
happens then, give back.

### FtpStorage

Each FTP command of `storeFile`, `downLoadFile` (with `streamLoadFile`, which
differs in how it copies bytes) and `deleteFile` is an action: `Cwd` and `Mkd`
for each directory of the path, `Stor` and `Transfer`, `CwdRoot`; `Retr`;
`Dele`; `Return` is the `finally` block. A connection (`link`) is the directory
it stands in, the replies the client has not read, whether its login was
accepted and whether it is broken. `FTPClient` and the server are external: a
command's reply is appended, and the client reads the oldest one, which is the
wrong one if an earlier call gave up between a command and its reply.
`Faults` says what may go wrong: `connect`, `login` (refused), `refuse` (a
command is refused for the server's own reasons), `data` (the data connection
cannot be made or breaks), `drop` (the control connection breaks).
`FtpStorage` refines `PoolUse` by `pc <- poolPc`: all commands are "use".

### Dictionary

A request of a page runs one method of `DicServiceImpl` in one transaction, a
statement a step, two transactions at a time, as in `RoleAuth`: `GetDic`,
`FindCod`, `FindNam`, `FindDtlCod`, `FindDtlNam`, `FindSeq` are the queries,
`DropDic`, `DropDtls` and `DropDtl` the DELETE statements, and `Save` is the
INSERT or UPDATE that Hibernate sends with the commit. `queryDicByNam` takes the
first of the rows it finds, which may be either of two. `editDic` with a new code
deletes the dictionary, then its items, then looks for the new name; the items
are not copied. `Read` and `Set` are `DicLoader.loadDic`: what a transaction has
read becomes the attribute of the servlet context later. `Loads` keeps one of
two codes that are one in capitals, as the keys of the map are. `by`, `mates`,
`crossed`, `dropped` and `early` are history.

### Org

`addOrg`, `modifyOrg`, `delOrg` and the organisation of a user (`addUsr`,
`modifyUsr`), in the same manner. `Forms` is what the pages offer of what is
committed when they are shown: `SetTree` is `TreeUtil.setTree`, with and without
a row for the root. None of the methods asks whether the parent or the
organisation it is given still exists, and `modifyOrg` only refuses the
organisation itself. `under` is history: what was deleted while a page was
shown.

### DataGrid

One grid, used as a list, as a list loaded by `commonQuery`, or to edit.
`pick` has the rows selected and checked (by id, of every page) and the look of
the page that is shown; its operators are the methods of `jquery.datagrid.js`
with their calls of each other (`checkOnSelect`, `selectOnCheck`,
`singleSelect`). `Load` is a query: `initData` asks for the first page,
`commonQuery` for the page its pager is on. `Request`, `Answer`, `Fail` and `Timer` are loads, with the
tasks that `setTimeout(..., 0)` puts off: taking the mask away, and starting a
new edit log. `Written`, `Deleted`, `AcceptChanges` and `RejectChanges` keep the
log; `base` and `mixed` are history.

### Parts of the front page: Tree, RolePage, Tabs, Window, Posts

| Module | Code | State and steps |
|---|---|---|
| `Tree` | `jquery.tree.js`, `easyui-extend-tree.js` | nodes below each node, what is open, boxes; loads of lazy nodes that are answered later |
| `RolePage` | `roleindex.jsp`, `TreeUtil`, `saveRoleFunc` | the role selected, the tree on its way, the ticks that are saved |
| `Tabs` | `jquery.tabs.js`, `index.jsp`, `addIndexTab`, `loadPageBtnAuthority` | tabs, their history, the marked menu, session tests under way, buttons of each page |
| `Window` | `jquery.panel.js`, `jquery.window.js` | open, folded, minimised, maximised, slides, shadow, mask, content and the address it came from |
| `Posts` | `eamsOperPost` and its variants, `openWin`, `closeWin`, `jquery.messager.js`, `jquery.linkbutton.js` | posts under way, messages, the one window, the buttons switched off |

### Fields, lists and boxes

| Module | Code |
|---|---|
| `Combo` | `jquery.combo.js`, `combobox`, `combogrid`, `combotree` |
| `Numbers` | `numberbox`, `numberspinner`, `timespinner`, `slider` |
| `DateField`, `DateText` | `calendar`, `datebox`, `datetimebox`; the functions on dates of `control.js`, `SfzhmUtil.js` |
| `SearchBox` | `jquery.searchbox.js` |
| `EditForm`, `QueryForm` | `jquery.form.js`, `easyui-extend-form.js` |
| `Checked` | `jquery.validatebox.js`, `easyui-extend-validatebox.js` |
| `TreeGrid`, `TreeGridCheck` | `jquery.treegrid.js`, `easyui-extend-treegrid.js` |
| `GridSums`, `GridColumns` | the footer of `easyui-extend-datagrid.js`; the columns of `jquery.datagrid.js` |
| `GridTools`, `Dragging` | rows moved by `control.js`; `easyui-extend-datagrid-dnd.js`, `draggable`, `droppable` |
| `Layout`, `Accordion`, `Menus`, `Resizing` | the plugins of these names, with `menubutton`, `splitbutton` |

Each has the same two variables, `data` and `page`, so that one run can check
several: `Parts` the six that are also proved about (`SearchBox`, `EditForm`,
`Checked`, `GridTools`, `TreeGridCheck`, `Resizing`), `MCFields` the others. A text is a value of a small set, a sequence of kinds of characters or
of parts, never characters put together; a size is a number where the code
computes with it and else a value that is only kept, replaced or put back. What
calls a widget from outside (a page) may call any of its methods at any time, as
pages do.

A date in `EditForm` is a text of `DateText`: how it is written, with zeros or
without, with a time or not. `setData` makes a day of it
(`hitooDateStringFormat`, `control.js:589-609`), which `getData` sends back.
`Dragging` has grids with an `idField` and without: with one, `getSelections` is
the grid's own list of selected rows, in the order of selection, and deleting
rows takes them from it (`Spliced`).

Where the code goes wrong in a corner, the module says so: a history variable
names the case, the property excludes it, and the comment says what happens
then. Section 8 lists these cases. A property holds everywhere else, and its
mutants show that it would notice.

## 4. Runs

| Run | Instance | What it shows |
|---|---|---|
| `roles` | 3 requests, 2 users, 1 function, 3 role IDs (built-in, one in use, one free), any rows at the start | `OrphanOnlyFromOverlap`, `TwinsOnlyFromOverlap`, `AloneKeepsContract` |
| `roles_live` | 2 requests, 3 users, 2 functions, all rows present | `TransactionsEnd`, `AloneKeepsContract` with loops of two turns |
| `roles_deleted` | 2 requests | violation: rows of deleted roles |
| `users` | 3 requests, 3 IDs (one user at the start), 2 codes, 2 names, 3 passwords | `TwinUsrsOnlyFromOverlap`, `OwnColumnsUnlessStale` |
| `users_blank` | the same, 2 requests | violation: a blank password |
| `users_own` | the same, a user logged in | violation: another user's password |
| `ftp` | 2 requests, 2 pools, 2 connections, limit 2, 1 idle, 2 levels of directories, all faults | `NoClientShared`, `LimitUnlessTwoPools`, `IdleLinksReady`, `PoolPromise`, `CallsMeanWhatTheySay` |
| `ftp_live` | limit 1, faults `connect`, `data`, `drop` | `RequestsEndUnlessTwoPools`, `LimitUnlessTwoPools` with a request that waits |
| `ftp_stored` | limit 1, fault `data` | violation: a path returned, nothing stored |
| `grid` | two queries (two pages of three rows; one row), one new row, 2 values, 3 sets of options, 3 requests as a list, 2 to edit | looks, boxes, hidden selections, pager, mask, edit log, `RejectRestores` |
| `parts` | 11 parts: 4 menus with 3 titles, 3 tabs, a window with 2 addresses, 3 posts; dictionaries `B` (of the program), `x`, `X` with 2 items and 3 requests; 3 organisations (2 at the start) with 1 user and 3 requests; a search box; a form with 2 records asked for 3 times; 2 boxes to check, 2 edits, 1 post; 3 rows and 4 steps; 6 rows in a tree, one of them lazy, 4 clicks; a box of 40 by 40 | `TabsHold`, `LooksOfWindow`, `PostsHold`, `DictionariesHold`, `ItemsServed`, `OrganisationsHold`, `FieldsShowValues`, `ChecksHold`, `ListsShowTheirData`, each of one or two parts |
| `fields` | 14 parts, each with its values in `MCFields.tla`; trees of 6 and 4 nodes with one lazy folder, 2 roles | `FormsHold`, `TreesHold`, `UntouchedTreeRestores`, `BoxesFill` |

`parts` and `fields` hold several specifications that share no state: the
variable `which` says the one a behaviour is of and never changes, so that each
run is the union of the runs of its parts, and a property is the conjunction of
what each part promises (`which = "org" => ...`). Their sizes differ by part;
no part is bounded by another. `Parts` has the constants of its eleven parts as
constants of its own, so that it is also what `PartsProofs` proves about;
`MCParts` gives them values. The parts of `MCFields` are only model-checked, and
their values are written in it.

Why the bounds are enough to be of interest. Two transactions are enough for
every overlap in the code, and a third one sees what the two leave behind
(`saveRefer` copying a row of a deleted role; `editRole` of one of two roles
with the same name; a dictionary added again while its items are dropped). A
request is one call and requests are not reused; each creates at most one pool
and one connection, so as many pools and connections as requests are no
restriction. `MaxIdle = 1` makes a pool destroy a returned connection. Two
levels of directories and one name let two stores race for the same directory
and let a connection be left at a wrong level. Codes `x` and `X` are one in
capitals. Three loads of a grid or a tree can overtake each other and leave one
behind; a page with a second page, a query with fewer rows and a row of its own
let selections outlive what is shown. Trees have a folder below a folder and a
lazy one. Numbers are chosen at and beyond both limits, years at leap years and
centuries, widths below and above those of the columns. `MaxMoves`, `MaxEdits`,
`MaxSteps`, `MaxTabs` and the like bound how many things a user does in a row
and are at least as many as the longest case described in section 8 takes.
Symmetry is used in runs of safety properties only; every set it permutes is
interchangeable in the module and in `Init`. Deadlock is not checked: requests
end and the system stops then.

Every property of a passing run has a mutant: a definition next to the one it
replaces (commented "Faulty") with which the property fails. Properties that are
conjunctions over several parts have one mutant in `PROJECT.json`; the other
"Faulty" operators of those modules are further ones for the parts.

What fails in the violation runs is described under `findings`: deleting a role
leaves rows behind when a page is older than the deletion; a blank new
password; `modifyPwd` by a code the session kept; `storeFile` returning the
path of a file it did not store.

## 5. Fairness

`roles_live`: weak fairness of each request's next statement once its
transaction runs (a thread of the container goes on) and of `BreakDeadlock`
(Oracle detects a circle of waits and ends one statement with ORA-00060). A
page shown need never be sent, and nothing has to fail by itself.

`ftp_live`: weak fairness of each request's next step. It includes that every
FTP command is answered or its connection breaks. The code sets no timeouts
(`FtpPool.java:116-118` are comments), so this is an assumption about the
network; without it a request can wait for ever for a reply. Weak fairness is
enough for a request waiting for a connection although the connection may be
taken by others: there are finitely many requests and each calls once.

## 6. Proofs

Proved by TLAPS for all values of the constants that satisfy the named
assumptions.

* `RoleAuthProofs`. `TypeCorrect` by induction over the steps.
  `OrphansOnlyFromOverlap`: the property speaks of committed rows, while an
  orphan is made by what a transaction holds back, so `OrphanInv` adds: a
  request's parameters and what it has read name roles that exist or are
  recorded in `gone` (`InvForm`), role IDs are given out once (`InvFresh`),
  what a transaction inserts is for such roles (`InvTxn`), a row of `sys_role`
  that is being dropped belongs to one open `delRoleFnc` that names it
  (`InvDrop`), and after its DELETE on a table, the rows of its role that it has
  not deleted were inserted by a request that overlapped with it (`InvDel`). `TwinsFromOverlap`:
  `TwinInv` adds that overlap is symmetric (`InvMates`) and that a row a
  transaction is about to insert next to a committed twin was committed by a
  request that overlapped with it (`InvTwin`, `InvDone`).
  `AloneLeavesContract`, an action property: `InvAlone` says, for each operation
  and each place in it, what a transaction that nothing has overlapped yet has
  read, deleted and inserted so far of what it is there for (`SoFar`: of
  `saveRefer`, say, that the users already copied to have exactly the roles read);
  nothing else changes the tables meanwhile, since whoever could is open, and so
  overlaps. `InvClosed`: a request that is not in a transaction holds nothing.
* `UsrAccountProofs`. `OnlyOwnColumns`: what a request will flush is, unless
  it is stale, the row in the table with its own columns changed
  (`EntityOK`, `ReadOK` for what a page of `modifyUsr` has read). `TwinUsrs`:
  a request past its check has found nobody with its code (name), or some
  request that overlapped with it has committed since (`InvFound`).
* `PoolUseProofs`, for any number of requests, pools and connections.
  `NoSharing`: `SharedInv` is `NoClientShared` in three parts (`InvHeld`,
  `InvIdle`, `InvOnce`), with the types and, for each place a request can be
  in, whether it has a pool and holds a client (`InvPc`); a
  client that goes back to a pool it did not come from breaks none of this.
  `LimitKept`: `CountInv` adds that the clients held are finitely many, that a
  pool not yet created is empty, and, while there is one pool, that it counts
  the clients held and has no more than `MaxActive` of held and idle ones
  together: that is why a borrower of an idle client cannot exceed the limit.
* `FtpStorageProofs`. `ImplementsPoolUse`: every step of `FtpStorage` is a step
  of `PoolUse` or leaves the pool alone (one lemma per kind of step; `CallInv`
  says where a request can be). `NoConnectionShared` and `ConnectionLimit` are
  the two theorems of `PoolUseProofs`, taken over along that mapping. `LinksReady`: `LinkInv` says of each request that talks how
  its connection fits the command it is about to send (`Fits`): the directory it
  stands in is the part of the path it has entered, and no reply is unread, or
  the one that ends a transfer; so that `Return` puts it back in the root with
  nothing unread. Connections on which a call has thrown are set apart
  (`hurt`). It rests on the invariant of the pool, by which nobody else talks on
  that connection. `TypeCorrect` needs the same: what is left of a path to enter
  is a path only if the command fits. `MeaningKept`, an action property, follows a
  store along its path: on a connection that can be trusted, in a call the server
  refused nothing, the directory the connection stands in and those left to enter
  make up the path of the call, and after a `MKD` the directory is there, whoever
  made it (`InvWay`); the steps of others leave that to it (`Left`), since
  directories are not removed and nobody else has its connection.
* `DataGridProofs`, for any rows, pages, options and number of requests, with
  answers in any order. `MaskAlwaysGoes`: what covers the panel is a request or
  leaves a task that uncovers it (`MaskInv`). `PagerTells`: a request that is
  alone is the one for the page the pager says (`OneRequest`), be that the first or,
  for `commonQuery`, the one it is on, which the query need not have. `RejectPutsBack`:
  the rows to go back to are those loaded or accepted, or the task that makes
  them so is still to come and nothing was edited (`OriginalInv`).
  The other five rest on `GridInv`: rows have ids of their own (`Types`), the
  look is the part of the memory that is on the page, and where boxes go
  together both memories are the same (`PickInv`), nothing is selected while a
  query that cleared the selection is under way and the mask is on (`HiddenInv`),
  a list counts the rows it shows (`UseInv`, which the pager needs), and the log
  is the difference of `rows` to `base`, both ways, with the pager counting
  it (`LogInv`). `OriginalInv` is needed along with it: what `rejectChanges`
  puts back must be `base`, and then deleted and inserted rows cancel out by
  counting ids (`RowsBalance`). Loops over rows (`Reselected`, `Total`,
  `AcceptChanges`, `DeleteSelectedRows`, `RejectChanges`) are folds; what each
  makes of its rows is an invariant of its steps, by `FoldKeeps`.
* `Folding`. `FoldKeeps`: what holds of the base and is kept by each step holds
  of `MapThenFoldSet`, to which every fold of the community modules comes down;
  the induction is over the finite sets of what was taken, with the smallest
  set that fails. The operator and its invariant are constants of the module,
  so that each loop is an instance.
* `DictionaryProofs`. `CacheServes`: unless two reloads crossed, the cache is one
  that `loadDic` makes of what the latest reload has read, and a reload that is
  under way has read later than that (`CacheInv`); `CacheOf` says what such a
  cache holds for a code that no other resembles. `TablesTell` rests on `Told`:
  what a request has found free, found, or looked up (a name, the row it edits,
  the last number) is still so, or somebody committed in between, and then neither
  was alone; what a request has dropped is gone or came back by one who overlaps
  with it; who added an item saw its dictionary, or its deletion overlaps. It
  also says that nothing a request holds is about the dictionary of the program.
* `PartsProofs`, for any instance of `Parts`. Each part has an invariant of its
  own, and `PartsInv` says that the part a behaviour is of keeps it.
  * `TabInFront`: `TabFew` holds between the calls that a handler makes (one panel at
    most is open, the marked one; the history has titles of tabs only), `TabWhole`
    when it is done: one is open, the last of the history, and its menu is the
    current one. Closing the tabs of the tab menu is a fold over them, each of
    which keeps `TabWhole` and leaves some of the tabs (`TabCloseEach`). A page that
    asks for its buttons has those of its menu because it is in front or has been
    away (`TabLoads`), and because a title belongs to one menu, or was asked for
    twice (`TabTitles`, which also says so of what is asked for and not answered).
  * `PartsTypes`: the types of all eleven, from their invariants.
  * `FieldsShow`: a search box with the focus has a text of the user's, and without
    it shows its value, or the prompt in grey (`SearchInv`), so that whatever sets
    the value shows it. A form keeps the record that was set last, and until
    something is changed it shows what `setData` made of that: all its single
    values, and of boxes and buttons no others unless a record was shown before
    (`EditInv`). Boxes are never unchecked, so the invariant must also say that a
    form that nobody touched shows nothing before the first record. Of a date that
    was legible it shows the same day, in dashes and without a time (`EditDay`, of
    `hitooDateStringFormat`); of others only what kind of text comes out is known.
  * `ChecksKeep`: a box whose text was seen and whose delay is over has the mark and
    the message of that text (`CheckMarked`); the text of the box with the focus was
    seen since it changed, or will be at the next look, unless it was changed twice
    (`CheckSeen`); one box has the focus, since entering one leaves the others
    (`CheckOne`). A post has the texts it was checked with.
  * `ListsShow`: that a row changes places with the one next to it is what leaves the
    order of all others alone (`ToolsOrder`, for each two rows of a list of any length
    without repetition); what the page holds of a dictionary is what the server has
    until that is edited (`ToolsTold`). For the boxes of
    a tree grid, `Above` is a recursive function: that it is what its definition says
    is shown row by row, by the numbering of the rows that the assumption gives
    (`CascadeAbove`), and so is what is above a row: rows with smaller numbers, its
    parent, and what is above that. `SelectParent` is a fold over it (`CascadeInv`).
    The rows above a row that is there are there too (`CascadeHold`), also when the
    rows below one come late.
  * `Windows` also has `Resizing`: `ResizeKept` says of each axis where the two edges
    are, from where they were when the mouse was pressed, for any steps of the mouse;
    where the upper or left edge is dragged past the least or greatest width, nothing
    is promised (section 8).
  * `Organisations`: an organisation that is referred to, by a row or by a request
    that will write it, is there or its deletion overlapped with the one who refers
    to it or came while his page was shown; it needs that whoever came in after
    `delOrg` had looked overlaps with it. Whoever took a code or a name after
    another had looked for it overlaps with that one. `TreeShowsReachable`: what
    `SetTree` finds level by level from the top (a fold) is what is found by going
    up from each organisation; both are induction on the level, and finitely many
    organisations are enough levels (`DownIsUp`).
  * `Windows`: `WinInv` adds to the property what a slide that runs will leave, and
    where each request under way asks.
  * `PostsCome`: `PostInv` says of each post how many of its request, its messages
    and its call back there are: one, until it is done (`PostOnce`), which is why
    nobody is called back twice; `PostTold` what each message stands for, and
    `PostButton` who has switched the button off.
  * `Dictionaries` and `Served` are `TablesTell` and `CacheServes`, taken over from
    an instance of `DictionaryProofs` (`SameDicStep`).

The assumptions on constants: `RoleAuthAssumption`, `UsrAccountAssumption`,
`ObjectPoolAssumption` (finitely many requests, both limits at least one),
`FtpStorageAssumption`, `DataGridAssumption` (the rows of a page have ids of their
own, and a query has a first page) and `PartsAssumption`, all of which TLC evaluates
in the runs. The last one is the conjunction of `DicAssumption` (`toUpperCase` of
capitals changes nothing, and there are codes and names for the tables at the
start), `OrgAssumption` (what there is at the start hangs together, and has codes
and names of its own), `TabsAssumption` (there is a menu for the first tab, and room
for it), `WindowAssumption`, `PostsAssumption` and `CheckedAssumption` (`None` and
the like are none of the values they stand beside), `EditAssumption` (a record has
values of its fields' kinds, a date being a text as `DateText` has them or empty, and
the empty word has no blanks to trim), `ToolsAssumption` (the rows of a grid are different
objects), `TreeGridCheckAssumption` (the rows are a tree of any shape: finitely many,
numbered so that a row comes after its parent) and `ResizingAssumption` (boxes are
within the limits at the start).

What a proof found. `TwinsOnlyFromOverlap` of `Dictionary` said at first that
the authors of two rows with one name overlapped with each other, and TLC agreed for
three requests. It is not so: a request that edits a row which has a twin, and keeps
its name, writes that name back; if a third request took the name in between, the
two that have it now need not have met. With four requests TLC finds it. The
property now says that neither of them was alone.

Left to TLC: liveness (out of reach of the prover), and the modules of `fields`,
whose properties go through trees and lists by recursive operators (`Tree`,
`RolePage`, `TreeGrid`, `Accordion`, `Layout`) or are about values of bounded inputs
(days, numbers of persons, sums and widths that are computed).

## 7. Not modelled

See `components` for each part, with the reason. In short:

* What a session keeps beside the user and the code: roles, URLs and buttons
  read at login. `PermitInterceptor` is commented out, nothing on the server
  tests them, and no promise is made of them.
* `FastDFSStorage` beyond its pool, `LocalStorage`, `StorageFactory`: calls of a
  vendored library, and one copy of a stream.
* `GlobalController` puts parameters into a session; `getCacheParam`, which would
  take them out, is called by nobody. `SplitPage` is constructed by nobody.
  `moveNodeUp` and its kin of `OrgServiceImpl` are called by no controller,
  `mergeTree` of `TreeUtil` by nobody.
* Queries that only fill pages, the map of enumerations of `DicLoader` (constants
  of the program), texts, icons, themes, pixels of borders, upload of files.
* Vendored scripts without behaviour of the program: `PinyinUtil.js` (a table),
  `bootstrap.js`, `jquery.uploadify.js`; `control-eams.js` (an older copy of
  `control.js`).
* The server losing data; a restart of the application (open transactions are
  rolled back and the pool is gone, which the modules have as `Rollback` and as
  their initial states; the cache is loaded again as in `Init`).
* Liveness of the front end: a user may stop at any time and an answer may never
  come; what must not stay behind is stated as safety (`MaskGoes`,
  `PostsComeBack`).

Unbounded in the code and bounded here: requests, IDs, directory depth, the
pool's limits (100 and 8), what a user does in a row; all of them constants.

## 8. What the modules found the code to do

These are cases in which the code does something a reader would not expect. Each
is a step of its module, and is named in the property that excludes it or in a
comment; none is a promise the repository makes, so none is a finding. The
history variables of the modules have their names.

**Tables.**
* `addOrg`, `modifyOrg`, `addUsr` and `modifyUsr` do not look whether the
  organisation they are given still exists (`OrgServiceImpl`,
  `UserServiceImpl`): an old page leaves users and organisations behind.
* Only the organisation itself is refused as its own parent: two can be put below
  each other, and drop out of every tree. With nothing at the top, the tree
  without a root shows those with a missing parent instead.
* The number of a new organisation is how many there are plus one, and not the
  last after a deletion.
* Two roles can have one name: `addRole` and `editRole` look before they write,
  and see only what is committed (`RoleServiceImpl.java:129`).
* `editDic` with a new code loses the items of the dictionary, and brings a
  dictionary back that was deleted meanwhile.
* Editing a dictionary does not refresh the cache. Its keys are capitals: of two
  codes that differ in case one is served for both, and a code that is not in
  capitals and not cached is looked up in capitals. Two reloads that cross may
  leave the older content.

**Grids and trees.**
* `clearSelections` leaves boxes of other pages ticked (`usrindex.jsp:170`);
  `rejectChanges` throws if a row is selected that is not among the old ones
  (`jquery.datagrid.js:1332-1351`); answers of two `commonQuery` may be shown in
  the wrong order (`easyui-extend-datagrid.js:169`). `commonQuery` keeps the page
  number of the query before: asked from a later page, a query with fewer rows
  shows an empty page (`:223-229`).
* Columns never fit again once the grid was narrower than its scroll bar, and a
  sum of 0 makes widths NaN (`jquery.datagrid.js:585-620`). The footer counts a
  blank as 0, makes NaN of a text or of no rows, and is not refreshed when a row
  changes (`easyui-extend-datagrid.js:131-166`).
* Lazy children of a ticked folder come unticked; nodes added while the answer is
  out are lost (`jquery.tree.js:368`). A node dropped on a closed folder that has
  left the tree when its nodes come is taken out and appended to nothing
  (`jquery.tree.js:220-232`).
* The trees of two roles asked for one after the other may be answered in the wrong
  order, and the ticks of the one are saved for the other (`roleindex.jsp:85`).
* A late answer for a row of a tree grid that was removed goes to the root, a row
  reloaded twice has its children twice, and appending below a row not yet loaded
  keeps it from being loaded. A row ticked by its own box is not selected
  (`easyui-extend-treegrid.js:119`), and a parent stays selected when all below
  it are unticked (`:116`).
* Dragging: a row once selected counts as selected for ever
  (`easyui-extend-datagrid-dnd.js:286`), and dragging one that is not selected
  moves the selected ones (`:273`). In a grid with an `idField` a drop of selected
  rows deletes them from the list it goes through (`:43-50`,
  `jquery.datagrid.js:895`): one row dropped on a row is lost, one dropped on an
  empty view arrives; of two or more every other one is lost on a row, and on a
  view the rest are there twice; the exception at the end leaves the drag unfinished.

**Page frame** (`control.js` unless said).
* `addIndexTab` looks for a tab and adds it when the server has answered: two
  tabs of one title (`:76`). `loadPageBtnAuthority` reads the menu that is
  current when the page is loaded, not the one it was opened from (`:13`).
* Answers of two `openWin`, or the window to log in, replace a form that is being
  edited (`:148`). A button switched off by a post stays off when the post fails
  (`:770`); some variants call `mofifyBtnStatus`, which does not exist
  (`:899-998`).
* `dgmovedown` without a row overwrites the second one with undefined (`:303`);
  the map counts removals of what it does not hold (`:364`); dictionaries of a
  page are those it was drawn with (`:698`).
* The shadow of a window closed during a slide appears after it
  (`jquery.window.js:131`); two refreshes of a panel may be answered out of order
  (`jquery.panel.js:173`).

**Fields and forms.**
* `setData` shows a date as a day with dashes, so that its time is lost when the form
  is saved; a date written `yyyy-M-d` with one digit each is taken for `yyyyMMdd` and
  torn when a time follows, and what is not recognised is left to the browser
  (`control.js:427-609`). `getData` takes the blanks from words.
* Clearing a combo keeps its previous value, so that setting it again tells nobody
  (`jquery.combo.js:212`); the arrow keys with the list closed erase the value of
  a combobox.
* A date typed and confirmed with Enter within the delay is lost; the check
  accepts `yyyyMMdd`, which the parser takes for today
  (`easyui-lang-zh_CN.js:51`); 30 February becomes 2 March.
* Only one of a smallest and largest time makes a time spinner wrap over midnight
  (`jquery.timespinner.js:104-117`); sliders round negative numbers the wrong way
  (`jquery.slider.js:108`).
* A text changed and changed back between two looks keeps the mark of the other
  text (`jquery.validatebox.js:32`); a disabled box that is marked still stops the
  form (`jquery.form.js:220`).
* `getQueryData` adds a condition named `undefined` for a number box, one for each
  box that is not ticked, and repeats that of a combo for each value
  (`easyui-extend-form.js:368-435`).

**Boxes.**
* A side of a layout expanded while it slides out leaves its strip
  (`jquery.layout.js:332-334`); collapsed twice it widens the centre twice
  (`:216-243`). Selecting the panel that is opening closes it
  (`jquery.accordion.js:141`). The timer of a menu that was left closes it again
  after it was opened anew (`jquery.menu.js:100`). Dragging the upper or left edge
  does not stop at the least width (`jquery.resizable.js:31-42`).
