----------------------------- MODULE FtpStorage -----------------------------
(***************************************************************************)
(* FtpStorage: store, load and delete a file over a pooled FTP connection. *)
(*                                                                         *)
(* A connection is a sequence of commands and replies.  A client that gives*)
(* up between a command and its reply leaves the reply unread, and the next*)
(* command on that connection takes it for its own.  FTPClient throws when *)
(* a connection breaks and returns FALSE (or null) when the reply is not   *)
(* the one it wants; FtpStorage looks at the answer of the first CWD of a  *)
(* directory and at the stream of a load, and at no other.                 *)
(***************************************************************************)
EXTENDS ObjectPool

CONSTANTS
    Names,      \* names of directories
    MaxDepth,   \* the server refuses deeper directories
    Faults      \* which of "connect", "login", "refuse", "data", "drop" happen

ASSUME FtpStorageAssumption ==
    /\ MaxDepth \in Nat
    /\ Faults \subseteq {"connect", "login", "refuse", "data", "drop"}

VARIABLES
    form,       \* the call of each request
    rest,       \* the directories a store has yet to enter
    link,       \* the FTP connection of each client, or Null
    tree,       \* the directories on the server
    file,       \* the file in each directory (one name is enough), or Null
    put,        \* history: the directory a store wrote to, or Null
    got,        \* what a load returns
    hurt,       \* history: the clients with which a call has failed
    refused     \* history: the requests the server refused something

callVars   == <<form, rest, put, got, refused>>
serverVars == <<tree, file>>
vars       == <<poolVars, callVars, serverVars, link, hurt>>

-----------------------------------------------------------------------------
Dirs  == UNION {[1..n -> Names] : n \in 0..MaxDepth}
Reply == {"ok", "pasv", "bad"}       \* 2xx; 227, which is 2xx too; 4xx or 5xx
Link  == [cwd : Dirs, unread : Seq(Reply), login : BOOLEAN, dead : BOOLEAN]
File  == [by : Reqs, is : {"partial", "whole", "mixed"}]

NoForm == [op |-> "none"]
Form   == [op : {"store", "load", "delete"}, dir : Dirs]

\* "giveup" is the way out of a call that has thrown.
Talking == {"cwd", "mkd", "cwdAgain", "stor", "transfer", "root", "retr", "dele"}
Ended   == {"done", "failed"}

Op(q)   == form[q].op
LinkOf(q) == link[client[q]]

\* FTPReply.isPositiveCompletion.
Positive(r) == r \in {"ok", "pasv"}

\* A command is sent and the server replies r: what the client reads, and what
\* stays of the connection.
Answer(l, r) == Head(Append(l.unread, r))

\* Faulty: the reply is left where it is.
AfterUnread(l, r) == [l EXCEPT !.unread = Append(@, r)]

After(l, r) == [l EXCEPT !.unread = Tail(Append(@, r))]

SetLink(q, l) == link' = [link EXCEPT ![client[q]] = l]

Alive(q, step) == pc[q] = step /\ ~ LinkOf(q).dead

Throw(q) ==
    /\ Goto(q, "giveup")
    /\ hurt' = hurt \cup {client[q]}

-----------------------------------------------------------------------------
(* The call, and getResource.                                                *)

Call(q) ==
    /\ pc[q] = "idle"
    /\ \E f \in Form : form' = [form EXCEPT ![q] = f]
    /\ Goto(q, "start")
    /\ UNCHANGED <<pool, made, active, idle, at, client, serverVars, link,
                   rest, put, got, hurt, refused>>

EnterDirs(dirs) == IF dirs = <<>> THEN "stor" ELSE "cwd"

First(f) ==
    CASE f.op = "store"  -> EnterDirs(f.dir)
      [] f.op = "load"   -> "retr"
      [] f.op = "delete" -> "dele"

GetInstance(q) ==
    /\ FindPool(q) \/ CreatePool(q) \/ EnterPool(q)
    /\ UNCHANGED <<callVars, serverVars, link, hurt>>

Ready(q) ==
    /\ rest' = [rest EXCEPT ![q] = IF Op(q) = "store" THEN form[q].dir ELSE <<>>]
    /\ UNCHANGED <<form, put, got, refused, serverVars, hurt>>

TakeLink(q) ==
    /\ TakeIdle(q, First(form[q]))
    /\ Ready(q)
    /\ UNCHANGED link

\* makeObject: connect, login, whose answer is not looked at, and CWD to the root.
Connect(q) ==
    /\ \E c \in Clients, ok \in IF "login" \in Faults THEN BOOLEAN ELSE {TRUE} :
        /\ MakeClient(q, c, First(form[q]))
        /\ link' = [link EXCEPT ![c] = [cwd |-> <<>>, unread |-> <<>>, login |-> ok, dead |-> FALSE]]
    /\ Ready(q)

ConnectFails(q) ==
    /\ "connect" \in Faults
    /\ MakeFails(q)
    /\ UNCHANGED <<callVars, serverVars, link, hurt>>

-----------------------------------------------------------------------------
(* storeFile.  For every directory of the path: CWD, and if that fails MKD   *)
(* and CWD again; then STOR, and CWD to the root.                            *)

Target(q) == Append(LinkOf(q).cwd, Head(rest[q]))

Cwd(q) ==
    /\ Alive(q, "cwd") \/ Alive(q, "cwdAgain")
    /\ LET l  == LinkOf(q)
           ok == l.login /\ Target(q) \in tree
           r  == IF ok THEN "ok" ELSE "bad"
       IN  /\ SetLink(q, [After(l, r) EXCEPT !.cwd = IF ok THEN Target(q) ELSE @])
           /\ IF Positive(Answer(l, r)) \/ pc[q] = "cwdAgain"
              THEN /\ rest' = [rest EXCEPT ![q] = Tail(@)]
                   /\ Goto(q, EnterDirs(Tail(rest[q])))
              ELSE /\ UNCHANGED rest
                   /\ Goto(q, "mkd")
    /\ UNCHANGED <<pool, made, active, idle, at, client, form, put, got, refused, serverVars, hurt>>

\* Faulty: without the second CWD.
MkdOnly(q) ==
    /\ Alive(q, "mkd")
    /\ tree' = tree \cup {Target(q)}
    /\ SetLink(q, After(LinkOf(q), "ok"))
    /\ rest' = [rest EXCEPT ![q] = Tail(@)]
    /\ Goto(q, EnterDirs(Tail(rest[q])))
    /\ UNCHANGED <<pool, made, active, idle, at, client, form, put, got, refused, file, hurt>>

Mkd(q) ==
    /\ Alive(q, "mkd")
    /\ LET l   == LinkOf(q)
           may == l.login /\ Target(q) \in Dirs \ tree
       IN  \/ /\ may
              /\ tree' = tree \cup {Target(q)}
              /\ SetLink(q, After(l, "ok"))
              /\ UNCHANGED refused
           \/ /\ may => "refuse" \in Faults
              /\ SetLink(q, After(l, "bad"))
              /\ refused' = IF l.login /\ Target(q) \in tree THEN refused ELSE refused \cup {q}
              /\ UNCHANGED tree
    /\ Goto(q, "cwdAgain")
    /\ UNCHANGED <<pool, made, active, idle, at, client, form, rest, put, got, file, hurt>>

\* Who else is writing the file of directory d.
Writers(q, d) == {p \in Reqs \ {q} : pc[p] = "transfer" /\ put[p] = d}

\* STOR and RETR begin with PASV.  NoPort: the reply is not a 227, and FTPClient
\* returns FALSE or null.  BadPort: it is, but the data connection cannot be
\* made, because something is in the way or the port is the one of an earlier
\* PASV; FTPClient throws.  Port: the command can be sent.
PasvReply(q) == IF LinkOf(q).login THEN "pasv" ELSE "bad"
PasvRead(q)  == Answer(LinkOf(q), PasvReply(q))

NoPort(q, next) ==
    /\ PasvRead(q) # "pasv"
    /\ SetLink(q, After(LinkOf(q), PasvReply(q)))
    /\ Goto(q, next)
    /\ UNCHANGED <<put, got, refused, file, hurt>>

BadPort(q) ==
    /\ PasvRead(q) = "pasv"
    /\ LinkOf(q).unread # <<>> \/ "data" \in Faults
    /\ SetLink(q, After(LinkOf(q), PasvReply(q)))
    /\ Throw(q)
    /\ UNCHANGED <<put, got, refused, file>>

Port(q) == PasvRead(q) = "pasv" /\ LinkOf(q).unread = <<>>

Refuse(q, next) ==
    /\ "refuse" \in Faults
    /\ refused' = refused \cup {q}
    /\ Goto(q, next)
    /\ UNCHANGED <<put, got, file, link, hurt>>

\* The transfer begins: the server truncates the file.
StorAccepted(q) ==
    LET d == LinkOf(q).cwd IN
    /\ put' = [put EXCEPT ![q] = d]
    /\ file' = [file EXCEPT ![d] = [by |-> q, is |-> IF Writers(q, d) = {} THEN "partial" ELSE "mixed"]]
    /\ Goto(q, "transfer")
    /\ UNCHANGED <<got, refused, link, hurt>>

Stor(q) ==
    /\ Alive(q, "stor")
    /\ \/ NoPort(q, "root")
       \/ BadPort(q)
       \/ Port(q) /\ (Refuse(q, "root") \/ StorAccepted(q))
    /\ UNCHANGED <<pool, made, active, idle, at, client, form, rest, tree>>

\* What the file is when the last byte of q has come.
Written(q) ==
    LET old == file[put[q]] IN
    IF old = Null THEN Null
    ELSE IF old = [by |-> q, is |-> "partial"] THEN [by |-> q, is |-> "whole"]
    ELSE [old EXCEPT !.is = "mixed"]

\* The copying of bytes throws; the reply that ends the transfer is not read.
Interrupted(q) ==
    /\ "data" \in Faults
    /\ \E r \in {"ok", "bad"} : SetLink(q, [LinkOf(q) EXCEPT !.unread = Append(@, r)])
    /\ Throw(q)

Transfer(q) ==
    /\ pc[q] = "transfer"
    /\ LET l == LinkOf(q) IN
       \/ /\ ~ l.dead
          /\ file' = [file EXCEPT ![put[q]] = Written(q)]
          /\ Goto(q, "root")
          /\ UNCHANGED <<put, got, refused, link, hurt>>
       \/ /\ ~ l.dead /\ Refuse(q, "root")                   \* the disk is full
       \/ /\ ~ l.dead /\ Interrupted(q)
          /\ UNCHANGED <<put, got, refused, file>>
       \/ /\ l.dead
          /\ file' \in {file, [file EXCEPT ![put[q]] = Written(q)]}
          /\ Throw(q)
          /\ UNCHANGED <<put, got, refused, link>>
    /\ UNCHANGED <<pool, made, active, idle, at, client, form, rest, tree>>

CwdRoot(q) ==
    /\ Alive(q, "root")
    /\ LET l == LinkOf(q) IN
       SetLink(q, IF l.login THEN [After(l, "ok") EXCEPT !.cwd = <<>>] ELSE After(l, "bad"))
    /\ Goto(q, "return")
    /\ UNCHANGED <<pool, made, active, idle, at, client, callVars, serverVars, hurt>>

-----------------------------------------------------------------------------
(* downLoadFile and streamLoadFile; deleteFile.  The path is absolute.       *)

\* Faulty: without getReply after the stream has been read.
RetrAcceptedUnread(q) ==
    /\ SetLink(q, [LinkOf(q) EXCEPT !.unread = Append(@, "ok")])
    /\ got' = [got EXCEPT ![q] = file[form[q].dir]]
    /\ Goto(q, "return")
    /\ UNCHANGED <<put, refused, file, hurt>>

\* The stream is read to its end, and then the reply.
RetrAccepted(q) ==
    /\ got' = [got EXCEPT ![q] = file[form[q].dir]]
    /\ Goto(q, "return")
    /\ UNCHANGED <<put, refused, file, link, hurt>>

NoFile(q) ==
    /\ Goto(q, "return")
    /\ UNCHANGED <<put, got, refused, file, link, hurt>>

Retr(q) ==
    /\ Alive(q, "retr")
    /\ \/ NoPort(q, "return")
       \/ BadPort(q)
       \/ Port(q) /\ file[form[q].dir] = Null /\ NoFile(q)
       \/ /\ Port(q) /\ file[form[q].dir] # Null
          /\ \/ Refuse(q, "return")
             \/ RetrAccepted(q)
             \/ Interrupted(q) /\ UNCHANGED <<put, got, refused, file>>
    /\ UNCHANGED <<pool, made, active, idle, at, client, form, rest, tree>>

Dele(q) ==
    /\ Alive(q, "dele")
    /\ LET l   == LinkOf(q)
           may == l.login /\ file[form[q].dir] # Null
       IN  \/ /\ may
              /\ file' = [file EXCEPT ![form[q].dir] = Null]
              /\ SetLink(q, After(l, "ok"))
              /\ UNCHANGED refused
           \/ /\ may => "refuse" \in Faults
              /\ SetLink(q, After(l, "bad"))
              /\ refused' = IF may THEN refused \cup {q} ELSE refused
              /\ UNCHANGED file
    /\ Goto(q, "return")
    /\ UNCHANGED <<pool, made, active, idle, at, client, form, rest, put, got, tree, hurt>>

\* The connection is gone: the command throws.
Broken(q) ==
    /\ pc[q] \in Talking \ {"transfer"}
    /\ LinkOf(q).dead
    /\ Throw(q)
    /\ UNCHANGED <<pool, made, active, idle, at, client, callVars, serverVars, link>>

-----------------------------------------------------------------------------
(* returnResource, in the finally block; the evictor; the server.            *)

Destroy(c) ==
    /\ link' = [link EXCEPT ![c] = Null]
    /\ hurt' = hurt \ {c}

\* Faulty: a connection is given back by the calls that succeed only.
ReturnDone(q) ==
    /\ \/ pc[q] = "return" /\ GiveBack(q, "done")
       \/ pc[q] = "giveup" /\ Goto(q, "failed") /\ UNCHANGED <<pool, made, active, idle, at, client>>
    /\ IF pc[q] = "giveup" \/ Keeps(pool) THEN UNCHANGED <<link, hurt>> ELSE Destroy(client[q])
    /\ UNCHANGED <<callVars, serverVars>>

Return(q) ==
    /\ \/ pc[q] = "return" /\ GiveBack(q, "done")
       \/ pc[q] = "giveup" /\ GiveBack(q, "failed")
    /\ IF Keeps(pool) THEN UNCHANGED <<link, hurt>> ELSE Destroy(client[q])
    /\ UNCHANGED <<callVars, serverVars>>

\* Idle for a minute: validateObject is no reason, isConnected stays TRUE when
\* the other side closes.
EvictLink ==
    /\ \E p \in Pools, i \in 1..MaxIdle : Evict(p, i) /\ Destroy(idle[p][i])
    /\ UNCHANGED <<callVars, serverVars>>

\* The server closes a connection, or the network does.
Drop ==
    /\ "drop" \in Faults
    /\ \E c \in Clients :
        /\ link[c] # Null /\ ~ link[c].dead
        /\ link' = [link EXCEPT ![c].dead = TRUE]
    /\ UNCHANGED <<poolVars, callVars, serverVars, hurt>>

-----------------------------------------------------------------------------
Init ==
    /\ PoolInit
    /\ form    = [q \in Reqs |-> NoForm]
    /\ rest    = [q \in Reqs |-> <<>>]
    /\ link    = [c \in Clients |-> Null]
    /\ tree    = {<<>>}
    /\ file    = [d \in Dirs |-> Null]
    /\ put     = [q \in Reqs |-> Null]
    /\ got     = [q \in Reqs |-> Null]
    /\ hurt    = {}
    /\ refused = {}

Step(q) ==
    \/ GetInstance(q)
    \/ TakeLink(q)
    \/ Connect(q)
    \/ ConnectFails(q)
    \/ Cwd(q)
    \/ Mkd(q)
    \/ Stor(q)
    \/ Transfer(q)
    \/ CwdRoot(q)
    \/ Retr(q)
    \/ Dele(q)
    \/ Broken(q)
    \/ Return(q)

Next == (\E q \in Reqs : Call(q) \/ Step(q)) \/ EvictLink \/ Drop

\* The thread of a request goes on, and every command is answered in the end or
\* its connection breaks.
Spec     == Init /\ [][Next]_vars
FairSpec == Spec /\ \A q \in Reqs : WF_vars(Step(q))

-----------------------------------------------------------------------------
(* The pool as the other modules see it.                                     *)

poolPc ==
    [q \in Reqs |-> IF pc[q] \in Talking THEN "use"
                    ELSE IF pc[q] = "giveup" THEN "return" ELSE pc[q]]

P == INSTANCE PoolUse WITH pc <- poolPc

-----------------------------------------------------------------------------
(* Properties.                                                               *)

\* The variables have their types; no connection is more than one reply behind.
TypeOK ==
    /\ pool \in made \cup {Null} /\ made \subseteq Pools
    /\ active \in [Pools -> Int]
    /\ \A p \in Pools : IdleIn(p) \subseteq Clients /\ Len(idle[p]) <= MaxIdle
    /\ pc \in [Reqs -> {"idle", "start", "create", "enter", "wait", "return", "giveup"}
                           \cup Talking \cup Ended]
    /\ at \in [Reqs -> made \cup {Null}]
    /\ client \in [Reqs -> Clients \cup {Null}]
    /\ form \in [Reqs -> Form \cup {NoForm}]
    /\ rest \in [Reqs -> Dirs]
    /\ \A c \in Clients : link[c] # Null =>
        /\ link[c].cwd \in Dirs /\ link[c].login \in BOOLEAN /\ link[c].dead \in BOOLEAN
        /\ link[c].unread \in {<<>>} \cup {<<r>> : r \in Reply}
    /\ tree \subseteq Dirs
    /\ file \in [Dirs -> File \cup {Null}]
    /\ put \in [Reqs -> Dirs \cup {Null}]
    /\ got \in [Reqs -> File \cup {Null}]
    /\ hurt \subseteq Clients
    /\ refused \subseteq Reqs

\* The storage uses its pool as PoolUse says, whatever fails.
PoolPromise == P!Spec

\* An idle connection on which no call has thrown stands in the root directory
\* with every reply read: storeFile goes back to the root and the loads read the
\* reply that ends a transfer.
IdleLinksReady ==
    \A p \in Pools : \A c \in IdleIn(p) \ hurt :
        link[c].login => link[c].cwd = <<>> /\ link[c].unread = <<>>

Trusted(q) == client[q] \notin hurt /\ LinkOf(q).login

\* A store that returns its path wrote the file there, and a load that returns
\* null found none, if the login was accepted, no call had thrown on that
\* connection before and the server refused this call nothing.
CallsMeanWhatTheySay ==
    [][\A q \in Reqs : (pc[q] \in Talking /\ pc'[q] = "return" /\ Trusted(q) /\ q \notin refused') =>
          /\ Op(q) = "store" => put[q] = form[q].dir
          /\ Op(q) = "load"  => (got'[q] = Null => file[form[q].dir] = Null)]_vars

\* Every request ends, whatever fails, unless two requests each created a pool:
\* then a client may go back to the pool it did not come from, and a request
\* may wait for ever for the other one.
RequestsEndUnlessTwoPools ==
    \A q \in Reqs : pc[q] = "start" ~> (pc[q] \in Ended \/ Cardinality(made) > 1)

\* storeFile returns "the actual path of the file", which "for ftp is the path
\* passed in" (FileHandler.java:13,15).
StoredWhereItSays ==
    [][\A q \in Reqs : (pc[q] = "return" /\ pc'[q] = "done" /\ Op(q) = "store")
          => put[q] = form[q].dir]_vars
=============================================================================
