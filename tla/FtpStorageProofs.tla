--------------------------- MODULE FtpStorageProofs ---------------------------
(***************************************************************************)
(* FtpStorage implements PoolUse, so what is proved of PoolUse holds of    *)
(* the pool of FtpStorage.  And what state its connections are in,         *)
(* wherever they are: in the hands of a request, or idle in a pool.        *)
(***************************************************************************)
EXTENDS FtpStorage, SequenceTheorems, TLAPS

PU == INSTANCE PoolUseProofs WITH pc <- poolPc

PcSet ==
    {"idle", "start", "create", "enter", "wait", "return", "giveup"} \cup Talking \cup Ended

\* What the mapping needs to know: where a request can be, and that it has the
\* parameters of its call.
CallInv ==
    /\ pc \in [Reqs -> PcSet]
    /\ form \in [Reqs -> Form \cup {NoForm}]
    /\ \A q \in Reqs : pc[q] # "idle" => form[q] \in Form

\* poolPc, of one request.
AsPool(x) == IF x \in Talking THEN "use" ELSE IF x = "giveup" THEN "return" ELSE x

LEMMA FirstTalks ==
    ASSUME NEW f \in Form
    PROVE  First(f) \in Talking
<1>1. f.op \in {"store", "load", "delete"}
    BY DEF Form
<1> QED BY <1>1 DEF First, EnterDirs, Talking

LEMMA Mapped ==
    ASSUME CallInv, NEW q \in Reqs, NEW x \in PcSet, pc' = [pc EXCEPT ![q] = x]
    PROVE  /\ poolPc' = [poolPc EXCEPT ![q] = AsPool(x)]
           /\ poolPc[q] = AsPool(pc[q])
           /\ AsPool(x) = AsPool(pc[q]) => poolPc' = poolPc
BY DEF CallInv, poolPc, AsPool

\* The way of a request from one command to the next.
LEMMA InitCall == Init => CallInv
BY DEF Init, PoolInit, CallInv, PcSet

LEMMA StepCall ==
    ASSUME CallInv, NEW q \in Reqs, Call(q) \/ Step(q)
    PROVE  /\ \E x \in PcSet \ {"idle"} : pc' = [pc EXCEPT ![q] = x]
           /\ CallInv'
<1> USE DEF CallInv
<1>1. CASE Call(q)
    BY <1>1 DEF Call, Goto, PcSet
<1>2. CASE Step(q)
    <2>1. form' = form /\ pc[q] # "idle"
        BY <1>2 DEF Step, GetInstance, FindPool, CreatePool, EnterPool, TakeLink, TakeIdle, Ready, Connect,
            MakeClient, MayMake, ConnectFails, MakeFails, Cwd, Mkd, Stor, Transfer, CwdRoot, Retr, Dele,
            Broken, Return, Alive, Talking, callVars
    <2>2. \E x \in PcSet \ {"idle"} : pc' = [pc EXCEPT ![q] = x]
        <3>1. form[q] \in Form
            BY <2>1
        <3>2. First(form[q]) \in Talking
            BY <3>1, FirstTalks
        <3>3. CASE GetInstance(q)
            BY <3>3 DEF GetInstance, FindPool, CreatePool, EnterPool, Goto, PcSet
        <3>4. CASE TakeLink(q) \/ Connect(q) \/ ConnectFails(q)
            BY <3>2, <3>4 DEF TakeLink, TakeIdle, Connect, MakeClient, ConnectFails, MakeFails, Goto, PcSet, Talking, Ended
        <3>5. CASE Cwd(q) \/ Mkd(q) \/ CwdRoot(q) \/ Dele(q) \/ Broken(q)
            BY <3>5 DEF Cwd, Mkd, CwdRoot, Dele, Broken, EnterDirs, Throw, Goto, PcSet, Talking
        <3>6. CASE Stor(q)
            BY <3>6 DEF Stor, NoPort, BadPort, Refuse, StorAccepted, Throw, Goto, PcSet, Talking
        <3>7. CASE Transfer(q)
            BY <3>7 DEF Transfer, Refuse, Interrupted, Throw, Goto, PcSet, Talking
        <3>8. CASE Retr(q)
            BY <3>8 DEF Retr, NoPort, BadPort, Refuse, RetrAccepted, NoFile, Interrupted, Throw, Goto, PcSet, Talking
        <3>9. CASE Return(q)
            BY <3>9 DEF Return, GiveBack, Goto, PcSet, Ended
        <3> QED BY <1>2, <3>3, <3>4, <3>5, <3>6, <3>7, <3>8, <3>9 DEF Step
    <2> QED BY <2>1, <2>2
<1> QED BY <1>1, <1>2

LEMMA OtherCall ==
    ASSUME CallInv, EvictLink \/ Drop \/ UNCHANGED vars
    PROVE  CallInv'
BY DEF CallInv, EvictLink, Evict, Drop, vars, poolVars, callVars

LEMMA CallInduction == Spec => []CallInv
<1>1. CallInv /\ [Next]_vars => CallInv'
    BY StepCall, OtherCall DEF Next
<1> QED BY InitCall, <1>1, PTL DEF Spec

-----------------------------------------------------------------------------
(* Every step of FtpStorage is a step of PoolUse, or leaves the pool alone.  *)

LEMMA CallMaps ==
    ASSUME CallInv, NEW q \in Reqs, Call(q)
    PROVE  P!Call(q)
<1>1. poolPc' = [poolPc EXCEPT ![q] = "start"] /\ poolPc[q] = "idle"
    BY Mapped DEF Call, Goto, AsPool, PcSet, Talking
<1> QED BY <1>1 DEF Call, P!Call, P!Goto

LEMMA GetInstanceMaps ==
    ASSUME CallInv, NEW q \in Reqs, GetInstance(q)
    PROVE  P!Step(q)
<1>1. CASE FindPool(q)
    <2>1. /\ poolPc' = [poolPc EXCEPT ![q] = IF pool = Null THEN "create" ELSE "enter"]
          /\ poolPc[q] = "start"
        BY <1>1, Mapped DEF FindPool, Goto, AsPool, PcSet, Talking
    <2> QED BY <1>1, <2>1 DEF FindPool, P!FindPool, P!Goto, P!Step
<1>2. CASE CreatePool(q)
    <2>1. poolPc' = [poolPc EXCEPT ![q] = "enter"] /\ poolPc[q] = "create"
        BY <1>2, Mapped DEF CreatePool, Goto, AsPool, PcSet, Talking
    <2> QED BY <1>2, <2>1 DEF CreatePool, P!CreatePool, P!Goto, P!Step
<1>3. CASE EnterPool(q)
    <2>1. poolPc' = [poolPc EXCEPT ![q] = "wait"] /\ poolPc[q] = "enter"
        BY <1>3, Mapped DEF EnterPool, Goto, AsPool, PcSet, Talking
    <2> QED BY <1>3, <2>1 DEF EnterPool, P!EnterPool, P!Goto, P!Step
<1> QED BY <1>1, <1>2, <1>3 DEF GetInstance

LEMMA BorrowMaps ==
    ASSUME CallInv, NEW q \in Reqs, TakeLink(q) \/ Connect(q)
    PROVE  P!Borrow(q)
<1>1. pc[q] = "wait" /\ pc' = [pc EXCEPT ![q] = First(form[q])]
    BY DEF TakeLink, TakeIdle, Connect, MakeClient, MayMake, Goto
<1>2. form[q] \in Form
    BY <1>1 DEF CallInv
<1>3. First(form[q]) \in Talking
    BY <1>2, FirstTalks
<1>4. poolPc' = [poolPc EXCEPT ![q] = "use"] /\ poolPc[q] = "wait"
    BY <1>1, <1>3, Mapped DEF AsPool, PcSet, Talking
<1>5. CASE TakeLink(q)
    BY <1>4, <1>5 DEF TakeLink, TakeIdle, Borrowed, P!Borrow, P!TakeIdle, P!Borrowed, P!Goto
<1>6. CASE Connect(q)
    <2>1. PICK c \in Clients : MakeClient(q, c, First(form[q]))
        BY <1>6 DEF Connect
    <2>2. P!MakeClient(q, c, "use")
        BY <1>4, <2>1 DEF MakeClient, MayMake, Borrowed, InUse, Held, IdleIn,
            P!MakeClient, P!MayMake, P!Borrowed, P!Goto, P!InUse, P!Held, P!IdleIn
    <2> QED BY <2>2 DEF P!Borrow
<1> QED BY <1>5, <1>6

LEMMA ConnectFailsMaps ==
    ASSUME CallInv, NEW q \in Reqs, ConnectFails(q)
    PROVE  P!MakeFails(q)
<1>1. poolPc' = [poolPc EXCEPT ![q] = "failed"] /\ poolPc[q] = "wait"
    BY Mapped DEF ConnectFails, MakeFails, MayMake, Goto, AsPool, PcSet, Talking, Ended
<1> QED BY <1>1 DEF ConnectFails, MakeFails, MayMake, P!MakeFails, P!MayMake, P!Goto

\* A command sends the request on to the next, or to the end of its call.
Talks(q) == Cwd(q) \/ Mkd(q) \/ Stor(q) \/ Transfer(q) \/ CwdRoot(q) \/ Retr(q) \/ Dele(q) \/ Broken(q)

LEMMA TalkMoves ==
    ASSUME CallInv, NEW q \in Reqs, Talks(q)
    PROVE  /\ pc[q] \in Talking
           /\ \E x \in Talking \cup {"return", "giveup"} : pc' = [pc EXCEPT ![q] = x]
           /\ UNCHANGED <<pool, made, active, idle, at, client>>
<1>1. CASE Cwd(q) \/ Mkd(q) \/ CwdRoot(q) \/ Dele(q) \/ Broken(q)
    BY <1>1 DEF Cwd, Mkd, CwdRoot, Dele, Broken, Alive, EnterDirs, Throw, Goto, Talking
<1>2. CASE Stor(q)
    BY <1>2 DEF Stor, Alive, NoPort, BadPort, Refuse, StorAccepted, Throw, Goto, Talking
<1>3. CASE Transfer(q)
    BY <1>3 DEF Transfer, Refuse, Interrupted, Throw, Goto, Talking
<1>4. CASE Retr(q)
    BY <1>4 DEF Retr, Alive, NoPort, BadPort, Refuse, RetrAccepted, NoFile, Interrupted, Throw, Goto, Talking
<1> QED BY <1>1, <1>2, <1>3, <1>4 DEF Talks

LEMMA TalkMaps ==
    ASSUME CallInv, NEW q \in Reqs, Talks(q)
    PROVE  P!Use(q) \/ UNCHANGED P!poolVars
<1>1. /\ pc[q] \in Talking
      /\ UNCHANGED <<pool, made, active, idle, at, client>>
    BY TalkMoves
<1>2. PICK x \in Talking \cup {"return", "giveup"} : pc' = [pc EXCEPT ![q] = x]
    BY TalkMoves
<1>3. x \in PcSet
    BY DEF PcSet
<1>4. /\ poolPc' = [poolPc EXCEPT ![q] = AsPool(x)]
      /\ poolPc[q] = "use"
      /\ AsPool(x) = "use" => poolPc' = poolPc
    BY <1>1, <1>2, <1>3, Mapped DEF AsPool
<1>5. AsPool(x) \in {"use", "return"}
    BY DEF AsPool
<1> QED BY <1>1, <1>4, <1>5 DEF P!Use, P!Goto, P!poolVars

LEMMA ReturnMaps ==
    ASSUME CallInv, NEW q \in Reqs, Return(q)
    PROVE  P!Return(q)
<1>1. PICK end \in {"done", "failed"} : pc[q] \in {"return", "giveup"} /\ GiveBack(q, end)
    BY DEF Return
<1>2. poolPc' = [poolPc EXCEPT ![q] = end] /\ poolPc[q] = "return"
    BY <1>1, Mapped DEF GiveBack, Goto, AsPool, PcSet, Talking, Ended
<1> QED BY <1>1, <1>2 DEF GiveBack, Keeps, P!Return, P!GiveBack, P!Keeps, P!Goto

LEMMA EvictMaps ==
    ASSUME EvictLink
    PROVE  \E p \in Pools, i \in 1..MaxIdle : P!Evict(p, i)
<1>1. PICK p \in Pools, i \in 1..MaxIdle : Evict(p, i)
    BY DEF EvictLink
<1>2. poolPc' = poolPc
    BY <1>1 DEF Evict, poolPc
<1> QED BY <1>1, <1>2 DEF Evict, P!Evict

LEMMA InitMaps == Init => P!PoolInit
BY DEF Init, PoolInit, P!PoolInit, poolPc, Talking

LEMMA NextMaps == CallInv /\ [Next]_vars => [P!Next]_P!poolVars
<1> SUFFICES ASSUME CallInv, [Next]_vars
             PROVE  P!Next \/ UNCHANGED P!poolVars
    OBVIOUS
<1>1. ASSUME NEW q \in Reqs, Call(q)
      PROVE  P!Next
    BY <1>1, CallMaps DEF P!Next
<1>2. ASSUME NEW q \in Reqs, Step(q)
      PROVE  P!Next \/ UNCHANGED P!poolVars
    <2>1. CASE GetInstance(q)
        BY <2>1, GetInstanceMaps DEF P!Next
    <2>2. CASE TakeLink(q) \/ Connect(q)
        BY <2>2, BorrowMaps DEF P!Next, P!Step
    <2>3. CASE ConnectFails(q)
        BY <2>3, ConnectFailsMaps DEF P!Next, P!Step
    <2>4. CASE Talks(q)
        BY <2>4, TalkMaps DEF P!Next, P!Step
    <2>5. CASE Return(q)
        BY <2>5, ReturnMaps DEF P!Next, P!Step
    <2> QED BY <1>2, <2>1, <2>2, <2>3, <2>4, <2>5 DEF Step, Talks
<1>3. CASE EvictLink
    BY <1>3, EvictMaps DEF P!Next
<1>4. CASE Drop \/ UNCHANGED vars
    BY <1>4 DEF Drop, vars, poolVars, P!poolVars, poolPc
<1> QED BY <1>1, <1>2, <1>3, <1>4 DEF Next

(***************************************************************************)
(* A request of FtpStorage borrows a client once and gives back that one   *)
(* once, whatever the server, the network or another request does:         *)
(* FtpStorage.java returns the resource in a finally block.                *)
(***************************************************************************)
THEOREM ImplementsPoolUse == Spec => PoolPromise
<1>1. Spec => P!PoolInit /\ [][P!Next]_P!poolVars
    BY InitMaps, NextMaps, CallInduction, PTL DEF Spec
<1> QED BY <1>1 DEF PoolPromise, P!Spec

-----------------------------------------------------------------------------
(* What PoolUse promises holds here.                                         *)

LEMMA SameSets ==
    /\ PU!ObjectPoolAssumption
    /\ \A S : PU!Cardinality(S) = Cardinality(S)
<1>1. PU!IsFiniteSet(Reqs) <=> IsFiniteSet(Reqs)
    BY DEF IsFiniteSet, PU!IsFiniteSet
<1>2. PU!ObjectPoolAssumption
    BY <1>1, ObjectPoolAssumption DEF ObjectPoolAssumption, PU!ObjectPoolAssumption
<1>3. ASSUME NEW S PROVE PU!Cardinality(S) = Cardinality(S)
    BY Zenon DEF Cardinality, PU!Cardinality
<1> QED BY <1>2, <1>3

LEMMA SamePromise == PoolPromise => PU!Spec
<1>1. P!PoolInit => PU!PoolInit
    BY DEF P!PoolInit, PU!PoolInit
<1>2. [P!Next]_P!poolVars => [PU!Next]_PU!poolVars
    BY DEF P!Next, P!Step, P!Call, P!FindPool, P!CreatePool, P!EnterPool, P!Borrow, P!TakeIdle, P!Borrowed,
        P!MakeClient, P!MayMake, P!InUse, P!Held, P!IdleIn, P!MakeFails, P!Use, P!Return, P!GiveBack,
        P!Keeps, P!Evict, P!Goto, P!poolVars,
        PU!Next, PU!Step, PU!Call, PU!FindPool, PU!CreatePool, PU!EnterPool, PU!Borrow, PU!TakeIdle, PU!Borrowed,
        PU!MakeClient, PU!MayMake, PU!InUse, PU!Held, PU!IdleIn, PU!MakeFails, PU!Use, PU!Return, PU!GiveBack,
        PU!Keeps, PU!Evict, PU!Goto, PU!poolVars
<1>3. PoolPromise => P!PoolInit /\ [][P!Next]_P!poolVars
    BY DEF PoolPromise, P!Spec
<1>4. PoolPromise => PU!PoolInit /\ [][PU!Next]_PU!poolVars
    BY <1>1, <1>2, <1>3, PTL
<1> QED BY <1>4 DEF PU!Spec

(***************************************************************************)
(* No two requests of FtpStorage ever use one FTP connection at a time.    *)
(***************************************************************************)
THEOREM NoConnectionShared == Spec => []NoClientShared
<1>1. PU!NoClientShared => NoClientShared
    BY DEF NoClientShared, Held, IdleIn, PU!NoClientShared, PU!Held, PU!IdleIn
<1>2. PU!Spec => []PU!NoClientShared
    BY PU!NoSharing, SameSets
<1> QED BY <1>1, <1>2, ImplementsPoolUse, SamePromise, PTL

(***************************************************************************)
(* FtpStorage has no more than maxActive connections out at a time, as     *)
(* long as no two requests both created a pool.                            *)
(***************************************************************************)
THEOREM ConnectionLimit == Spec => []LimitUnlessTwoPools
<1>1. PU!LimitUnlessTwoPools => LimitUnlessTwoPools
    BY SameSets DEF LimitUnlessTwoPools, Held, PU!LimitUnlessTwoPools, PU!Held
<1>2. PU!Spec => []PU!LimitUnlessTwoPools
    BY PU!LimitKept, SameSets
<1> QED BY <1>1, <1>2, ImplementsPoolUse, SamePromise, PTL

-----------------------------------------------------------------------------
(* The connections.                                                          *)

Holding == Talking \cup {"return", "giveup"}

\* What PoolUseProofs has shown of the pool, in the terms of FtpStorage.
PoolInv ==
    /\ pool \in made \cup {Null} /\ made \subseteq Pools
    /\ active \in [Pools -> Int]
    /\ idle \in [Pools -> Seq(Clients)]
    /\ at \in [Reqs -> made \cup {Null}]
    /\ client \in [Reqs -> Clients \cup {Null}]
    /\ \A q \in Reqs :
        /\ pc[q] = "wait" => at[q] \in Pools
        /\ pc[q] \in Holding => pool \in Pools
        /\ client[q] # Null <=> pc[q] \in Holding
    /\ NoClientShared

LEMMA PoolInduction == Spec => []PoolInv
<1>1. Spec => []PU!SharedInv
    BY PU!SharedInduction, SameSets, ImplementsPoolUse, SamePromise, PTL
<1>2. CallInv /\ PU!SharedInv => PoolInv
    <2> SUFFICES ASSUME CallInv, PU!SharedInv PROVE PoolInv
        OBVIOUS
    <2> USE DEF PU!SharedInv
    <2>1. /\ pool \in made \cup {Null} /\ made \subseteq Pools
          /\ active \in [Pools -> Int]
          /\ idle \in [Pools -> Seq(Clients)]
                /\ at \in [Reqs -> made \cup {Null}]
          /\ client \in [Reqs -> Clients \cup {Null}]
        BY DEF PU!InvTypes
    <2>2. NoClientShared
        BY DEF PU!InvHeld, PU!InvIdle, PU!InvOnce, NoClientShared, Held, IdleIn
    <2>3. ASSUME NEW q \in Reqs
          PROVE  /\ pc[q] = "wait" => at[q] \in Pools
                 /\ pc[q] \in Holding => pool \in Pools
                 /\ client[q] # Null <=> pc[q] \in Holding
        <3>1. pc[q] \in PcSet
            BY DEF CallInv
        <3>2. /\ pc[q] = "wait" <=> poolPc[q] = "wait"
              /\ pc[q] \in Holding <=> poolPc[q] \in {"use", "return"}
            BY <3>1 DEF poolPc, Holding, Talking, PcSet, Ended
        <3> QED BY <2>1, <3>2 DEF PU!InvPc
    <2> QED BY <2>1, <2>2, <2>3 DEF PoolInv
<1> QED BY <1>1, <1>2, CallInduction, PTL

-----------------------------------------------------------------------------
(* Links.                                                                    *)

Behind == {l \in Link : Len(l.unread) <= 1}

\* A reply comes and the oldest one is read.
LEMMA Queue ==
    ASSUME NEW S, NEW s \in Seq(S), NEW r \in S
    PROVE  /\ Append(s, r) \in Seq(S) /\ Len(Append(s, r)) = Len(s) + 1 /\ Len(s) \in Nat
           /\ Tail(Append(s, r)) \in Seq(S)
           /\ Len(Tail(Append(s, r))) = Len(s)
           /\ Head(Append(s, r)) \in S
           /\ s = <<>> => Head(Append(s, r)) = r /\ Tail(Append(s, r)) = <<>>
<1>1. Append(s, r) \in Seq(S) /\ Len(Append(s, r)) = Len(s) + 1 /\ Len(s) \in Nat
    BY AppendProperties, LenProperties
<1>2. Append(s, r) # <<>>
    BY <1>1, EmptySeq
<1>3. /\ Tail(Append(s, r)) \in Seq(S)
      /\ Len(Tail(Append(s, r))) = Len(s)
      /\ Head(Append(s, r)) \in S
    BY <1>1, <1>2, HeadTailProperties
<1>4. s = <<>> => Tail(Append(s, r)) = <<>>
    BY <1>1, <1>3, EmptySeq
<1>5. s = <<>> => Head(Append(s, r)) = r
    BY <1>1, <1>2, AppendProperties, EmptySeq
<1> QED BY <1>1, <1>3, <1>4, <1>5

LEMMA Read ==
    ASSUME NEW l \in Behind, NEW r \in Reply
    PROVE  /\ Answer(l, r) \in Reply
           /\ l.unread = <<>> => Answer(l, r) = r
           /\ After(l, r) \in Behind
           /\ After(l, r).cwd = l.cwd /\ After(l, r).login = l.login /\ After(l, r).dead = l.dead
           /\ l.unread = <<>> => After(l, r).unread = <<>>
<1> DEFINE t == Tail(Append(l.unread, r))
<1>1. l \in Link /\ l.unread \in Seq(Reply) /\ Len(l.unread) <= 1
    BY DEF Behind, Link
<1>2. /\ t \in Seq(Reply) /\ Len(t) = Len(l.unread)
      /\ Head(Append(l.unread, r)) \in Reply
      /\ l.unread = <<>> => Head(Append(l.unread, r)) = r /\ t = <<>>
    BY <1>1, Queue
<1>3. After(l, r) = [l EXCEPT !.unread = t]
    BY DEF After
<1> HIDE DEF t
<1>4. After(l, r) \in Link /\ After(l, r).unread = t
    BY <1>1, <1>2, <1>3 DEF Link
<1>5. After(l, r).cwd = l.cwd /\ After(l, r).login = l.login /\ After(l, r).dead = l.dead
    BY <1>1, <1>3 DEF Link
<1> QED BY <1>1, <1>2, <1>4, <1>5 DEF Answer, Behind

LEMMA RootIsDir == <<>> \in Dirs
<1>1. <<>> \in [1 .. 0 -> Names]
    OBVIOUS
<1> QED BY <1>1, FtpStorageAssumption DEF Dirs, FtpStorageAssumption

\* What is known of the link of a request that is at x, or of an idle one, as if
\* its request had just returned; "bad" means that a call has thrown on it.
Fits(x, l, bad) ==
    /\ x = "transfer" => l.unread = <<>>
    /\ x = "giveup" => bad
    /\ ~ bad /\ l.login =>
        /\ l.unread = <<>>
        /\ x \in {"retr", "dele", "return"} => l.cwd = <<>>

LinkInv ==
    /\ link \in [Clients -> Behind \cup {Null}]
    /\ tree \subseteq Dirs
    /\ hurt \subseteq Clients
    /\ \A q \in Reqs : client[q] # Null =>
        LinkOf(q) \in Behind /\ Fits(pc[q], LinkOf(q), client[q] \in hurt)
    /\ \A p \in Pools : \A c \in IdleIn(p) :
        link[c] \in Behind /\ Fits("return", link[c], c \in hurt)

Inv == CallInv /\ PoolInv /\ LinkInv

\* What a command does to the link of its request.
Moves(q) ==
    /\ \E x \in Holding, l \in Behind :
        /\ pc' = [pc EXCEPT ![q] = x]
        /\ link' = [link EXCEPT ![client[q]] = l]
        /\ Fits(x, l, client[q] \in hurt')
    /\ hurt' \in {hurt, hurt \cup {client[q]}}
    /\ tree' \subseteq Dirs
    /\ UNCHANGED <<idle, client>>

LEMMA Talker ==
    ASSUME Inv, NEW q \in Reqs, pc[q] \in Holding
    PROVE  /\ client[q] \in Clients
           /\ LinkOf(q) \in Behind
           /\ Fits(pc[q], LinkOf(q), client[q] \in hurt)
           /\ link = [link EXCEPT ![client[q]] = LinkOf(q)]
<1>1. client[q] # Null /\ client[q] \in Clients
    BY DEF Inv, PoolInv
<1>2. LinkOf(q) \in Behind /\ Fits(pc[q], LinkOf(q), client[q] \in hurt)
    BY <1>1 DEF Inv, LinkInv
<1>3. link = [link EXCEPT ![client[q]] = link[client[q]]]
    BY <1>1 DEF Inv, LinkInv
<1> QED BY <1>1, <1>2, <1>3 DEF LinkOf

\* A call that throws marks its connection.
LEMMA Thrown ==
    ASSUME Inv, NEW q \in Reqs, pc[q] \in Talking, Throw(q),
           NEW l \in Behind, link' = [link EXCEPT ![client[q]] = l],
           tree' \subseteq Dirs, UNCHANGED <<idle, client>>
    PROVE  Moves(q)
<1>1. Fits("giveup", l, client[q] \in hurt')
    BY DEF Throw, Fits
<1> QED BY <1>1 DEF Moves, Throw, Goto, Holding

LEMMA CwdMoves ==
    ASSUME Inv, NEW q \in Reqs, Cwd(q)
    PROVE  Moves(q)
<1> DEFINE l  == LinkOf(q)
           ok == l.login /\ Target(q) \in tree
           r  == IF ok THEN "ok" ELSE "bad"
           k  == [After(l, r) EXCEPT !.cwd = IF ok THEN Target(q) ELSE @]
<1>1. pc[q] \in {"cwd", "cwdAgain"} /\ pc[q] \in Talking /\ pc[q] \in Holding
    BY DEF Cwd, Alive, Talking, Holding
<1>2. l \in Behind /\ Fits(pc[q], l, client[q] \in hurt)
    BY <1>1, Talker
<1>3. tree \subseteq Dirs
    BY DEF Inv, LinkInv
<1>4. k \in Behind /\ k.login = l.login /\ (l.unread = <<>> => k.unread = <<>>)
    <2>1. r \in Reply
        BY DEF Reply
    <2> HIDE DEF r
    <2>2. After(l, r) \in Behind /\ After(l, r).login = l.login /\ (l.unread = <<>> => After(l, r).unread = <<>>)
        BY <1>2, <2>1, Read
    <2>3. PICK d \in Dirs : k = [After(l, r) EXCEPT !.cwd = d]
        <3>1. After(l, r).cwd \in Dirs
            BY <2>2 DEF Behind, Link
        <3> QED BY <1>3, <3>1
    <2>4. /\ k \in [cwd : Dirs, unread : Seq(Reply), login : BOOLEAN, dead : BOOLEAN]
          /\ k.unread = After(l, r).unread /\ k.login = After(l, r).login
        BY <2>2, <2>3 DEF Behind, Link
    <2> QED BY <2>2, <2>4 DEF Behind, Link
<1>5. \E x \in {"mkd", "cwd", "stor"} : pc' = [pc EXCEPT ![q] = x]
    BY DEF Cwd, EnterDirs, Goto
<1>6. link' = [link EXCEPT ![client[q]] = k] /\ UNCHANGED <<hurt, tree, idle, client>>
    BY DEF Cwd, SetLink, serverVars
<1>7. \A x \in {"mkd", "cwd", "stor"} : Fits(x, k, client[q] \in hurt')
    BY <1>2, <1>4, <1>6 DEF Fits
<1> HIDE DEF k
<1> QED BY <1>3, <1>4, <1>5, <1>6, <1>7 DEF Moves, Holding, Talking

LEMMA MkdMoves ==
    ASSUME Inv, NEW q \in Reqs, Mkd(q)
    PROVE  Moves(q)
<1> DEFINE l == LinkOf(q)
<1>1. pc[q] = "mkd" /\ pc[q] \in Holding
    BY DEF Mkd, Alive, Talking, Holding
<1>2. l \in Behind /\ Fits(pc[q], l, client[q] \in hurt)
    BY <1>1, Talker
<1>3. PICK r \in {"ok", "bad"} : link' = [link EXCEPT ![client[q]] = After(l, r)]
    BY DEF Mkd, SetLink
<1>4. tree' \subseteq Dirs /\ UNCHANGED <<hurt, idle, client>> /\ pc' = [pc EXCEPT ![q] = "cwdAgain"]
    BY DEF Mkd, Goto, Inv, LinkInv
<1>5. After(l, r) \in Behind /\ After(l, r).login = l.login /\ (l.unread = <<>> => After(l, r).unread = <<>>)
    BY <1>2, Read DEF Reply
<1>6. Fits("cwdAgain", After(l, r), client[q] \in hurt')
    BY <1>1, <1>2, <1>4, <1>5 DEF Fits
<1> QED BY <1>3, <1>4, <1>5, <1>6 DEF Moves, Holding, Talking

\* PASV, and what can come of it.
LEMMA PasvMoves ==
    ASSUME Inv, NEW q \in Reqs, pc[q] \in {"stor", "retr"}, NEW x \in {"root", "return"},
           x = "return" <=> pc[q] = "retr", tree' \subseteq Dirs, UNCHANGED <<idle, client>>,
           NoPort(q, x) \/ BadPort(q) \/ Refuse(q, x)
    PROVE  Moves(q)
<1> DEFINE l == LinkOf(q)
           k == After(l, PasvReply(q))
<1>1. pc[q] \in Talking /\ pc[q] \in Holding
    BY DEF Talking, Holding
<1>2. l \in Behind /\ Fits(pc[q], l, client[q] \in hurt) /\ link = [link EXCEPT ![client[q]] = l]
    BY <1>1, Talker
<1>3. PasvReply(q) \in Reply
    BY DEF PasvReply, Reply
<1>4. k \in Behind /\ k.login = l.login /\ k.cwd = l.cwd /\ (l.unread = <<>> => k.unread = <<>>)
    BY <1>2, <1>3, Read
<1> HIDE DEF k
<1>5. CASE NoPort(q, x)
    <2>1. Fits(x, k, client[q] \in hurt')
        BY <1>2, <1>4, <1>5 DEF NoPort, Fits
    <2> QED BY <1>4, <1>5, <2>1 DEF NoPort, Moves, SetLink, Goto, Holding, Talking, k
<1>6. CASE BadPort(q)
    BY <1>1, <1>4, <1>6, Thrown DEF BadPort, SetLink, k
<1>7. CASE Refuse(q, x)
    <2>1. Fits(x, l, client[q] \in hurt')
        BY <1>2, <1>7 DEF Refuse, Fits
    <2>2. link' = [link EXCEPT ![client[q]] = l]
        BY <1>2, <1>7 DEF Refuse
    <2> QED BY <1>2, <1>7, <2>1, <2>2 DEF Refuse, Moves, Goto, Holding, Talking
<1> QED BY <1>5, <1>6, <1>7

LEMMA InterruptedMoves ==
    ASSUME Inv, NEW q \in Reqs, pc[q] \in {"transfer", "retr"}, LinkOf(q).unread = <<>>,
           tree' \subseteq Dirs, UNCHANGED <<idle, client>>, Interrupted(q)
    PROVE  Moves(q)
<1>1. pc[q] \in Talking /\ pc[q] \in Holding
    BY DEF Talking, Holding
<1>2. LinkOf(q) \in Behind
    BY <1>1, Talker
<1>3. PICK r \in {"ok", "bad"} : SetLink(q, [LinkOf(q) EXCEPT !.unread = Append(@, r)])
    BY DEF Interrupted
<1>4. [LinkOf(q) EXCEPT !.unread = Append(@, r)] \in Behind
    <2>1. LinkOf(q) \in Link /\ LinkOf(q).unread \in Seq(Reply) /\ r \in Reply
        BY <1>2 DEF Behind, Link, Reply
    <2>2. Append(LinkOf(q).unread, r) \in Seq(Reply) /\ Len(Append(LinkOf(q).unread, r)) = 1
        BY <2>1, Queue, EmptySeq
    <2> DEFINE u == Append(LinkOf(q).unread, r)
    <2> HIDE DEF u
    <2>3. [LinkOf(q) EXCEPT !.unread = u] \in Link /\ [LinkOf(q) EXCEPT !.unread = u].unread = u
        BY <2>1, <2>2 DEF Link, u
    <2>4. [LinkOf(q) EXCEPT !.unread = u] \in Behind
        <3>1. Len(u) <= 1
            BY <2>2 DEF u
        <3> QED BY <2>3, <3>1 DEF Behind
    <2> QED BY <2>4 DEF u
<1> QED BY <1>1, <1>3, <1>4, Thrown DEF Interrupted, SetLink

LEMMA StorMoves ==
    ASSUME Inv, NEW q \in Reqs, Stor(q)
    PROVE  Moves(q)
<1>1. /\ pc[q] = "stor" /\ pc[q] \in Holding
      /\ tree' \subseteq Dirs /\ UNCHANGED <<idle, client>>
    BY DEF Stor, Alive, Talking, Holding, Inv, LinkInv
<1>2. /\ LinkOf(q) \in Behind /\ Fits(pc[q], LinkOf(q), client[q] \in hurt)
      /\ link = [link EXCEPT ![client[q]] = LinkOf(q)]
    BY <1>1, Talker
<1>3. CASE NoPort(q, "root") \/ BadPort(q) \/ Refuse(q, "root")
    BY <1>1, <1>3, PasvMoves
<1>4. CASE Port(q) /\ StorAccepted(q)
    <2>1. Fits("transfer", LinkOf(q), client[q] \in hurt')
        BY <1>2, <1>4 DEF Port, StorAccepted, Fits
    <2>2. /\ link' = [link EXCEPT ![client[q]] = LinkOf(q)]
          /\ pc' = [pc EXCEPT ![q] = "transfer"] /\ hurt' = hurt
        BY <1>2, <1>4 DEF StorAccepted, Goto
    <2> QED BY <1>1, <1>2, <2>1, <2>2 DEF Moves, Holding, Talking
<1> QED BY <1>3, <1>4 DEF Stor

LEMMA TransferMoves ==
    ASSUME Inv, NEW q \in Reqs, Transfer(q)
    PROVE  Moves(q)
<1>1. /\ pc[q] = "transfer" /\ pc[q] \in Talking /\ pc[q] \in Holding
      /\ tree' \subseteq Dirs /\ UNCHANGED <<idle, client>>
    BY DEF Transfer, Talking, Holding, Inv, LinkInv
<1>2. /\ LinkOf(q) \in Behind /\ Fits("transfer", LinkOf(q), client[q] \in hurt)
      /\ link = [link EXCEPT ![client[q]] = LinkOf(q)]
    BY <1>1, Talker
<1>3. Fits("root", LinkOf(q), client[q] \in hurt)
    BY <1>2 DEF Fits
<1>4. CASE pc' = [pc EXCEPT ![q] = "root"] /\ link' = link /\ hurt' = hurt
    <2>1. link' = [link EXCEPT ![client[q]] = LinkOf(q)]
        BY <1>2, <1>4
    <2> QED BY <1>1, <1>2, <1>3, <1>4, <2>1 DEF Moves, Holding, Talking
<1>5. CASE Throw(q) /\ link' = link
    <2>1. link' = [link EXCEPT ![client[q]] = LinkOf(q)]
        BY <1>2, <1>5
    <2> QED BY <1>1, <1>2, <1>5, <2>1, Thrown
<1>6. CASE Interrupted(q)
    BY <1>1, <1>2, <1>6, InterruptedMoves DEF Fits
<1> QED BY <1>4, <1>5, <1>6 DEF Transfer, Refuse, Goto

LEMMA CwdRootMoves ==
    ASSUME Inv, NEW q \in Reqs, CwdRoot(q)
    PROVE  Moves(q)
<1> DEFINE l == LinkOf(q)
           k == IF l.login THEN [After(l, "ok") EXCEPT !.cwd = <<>>] ELSE After(l, "bad")
<1>1. /\ pc[q] = "root" /\ pc[q] \in Holding
      /\ pc' = [pc EXCEPT ![q] = "return"] /\ link' = [link EXCEPT ![client[q]] = k]
      /\ tree' \subseteq Dirs /\ UNCHANGED <<hurt, idle, client>>
    BY DEF CwdRoot, Alive, SetLink, Goto, serverVars, Talking, Holding, Inv, LinkInv
<1>2. l \in Behind /\ Fits("root", l, client[q] \in hurt)
    BY <1>1, Talker
<1>3. \A r \in Reply : /\ After(l, r) \in Behind /\ After(l, r).login = l.login
                       /\ l.unread = <<>> => After(l, r).unread = <<>>
    BY <1>2, Read
<1>4. /\ k \in Behind /\ k.login = l.login
      /\ l.unread = <<>> => k.unread = <<>>
      /\ l.login => k.cwd = <<>>
    <2>1. CASE l.login
        <3>1. After(l, "ok") \in Behind /\ After(l, "ok").login = l.login
              /\ (l.unread = <<>> => After(l, "ok").unread = <<>>)
            BY <1>3 DEF Reply
        <3>2. k = [After(l, "ok") EXCEPT !.cwd = <<>>]
            BY <2>1
        <3> HIDE DEF k, l
        <3>3. /\ k \in Link /\ k.cwd = <<>>
              /\ k.unread = After(l, "ok").unread /\ k.login = After(l, "ok").login
            BY RootIsDir, <3>1, <3>2 DEF Behind, Link
        <3> QED BY <2>1, <3>1, <3>3 DEF Behind
    <2>2. CASE ~ l.login
        BY <1>3, <2>2 DEF Reply
    <2> QED BY <2>1, <2>2
<1>5. Fits("return", k, client[q] \in hurt')
    BY <1>1, <1>2, <1>4 DEF Fits
<1> HIDE DEF k
<1> QED BY <1>1, <1>4, <1>5 DEF Moves, Holding

LEMMA RetrMoves ==
    ASSUME Inv, NEW q \in Reqs, Retr(q)
    PROVE  Moves(q)
<1>1. /\ pc[q] = "retr" /\ pc[q] \in Holding
      /\ tree' \subseteq Dirs /\ UNCHANGED <<idle, client>>
    BY DEF Retr, Alive, Talking, Holding, Inv, LinkInv
<1>2. /\ LinkOf(q) \in Behind /\ Fits("retr", LinkOf(q), client[q] \in hurt)
      /\ link = [link EXCEPT ![client[q]] = LinkOf(q)]
    BY <1>1, Talker
<1>3. CASE NoPort(q, "return") \/ BadPort(q) \/ Refuse(q, "return")
    BY <1>1, <1>3, PasvMoves
<1>4. CASE Port(q) /\ (NoFile(q) \/ RetrAccepted(q))
    <2>1. Fits("return", LinkOf(q), client[q] \in hurt)
        BY <1>2 DEF Fits
    <2>2. /\ link' = [link EXCEPT ![client[q]] = LinkOf(q)]
          /\ pc' = [pc EXCEPT ![q] = "return"] /\ hurt' = hurt
        BY <1>2, <1>4 DEF NoFile, RetrAccepted, Goto
    <2> QED BY <1>1, <1>2, <2>1, <2>2 DEF Moves, Holding
<1>5. CASE Port(q) /\ Interrupted(q)
    BY <1>1, <1>5, InterruptedMoves DEF Port
<1> QED BY <1>3, <1>4, <1>5 DEF Retr

LEMMA DeleMoves ==
    ASSUME Inv, NEW q \in Reqs, Dele(q)
    PROVE  Moves(q)
<1> DEFINE l == LinkOf(q)
<1>1. /\ pc[q] = "dele" /\ pc[q] \in Holding
      /\ tree' \subseteq Dirs /\ UNCHANGED <<hurt, idle, client>> /\ pc' = [pc EXCEPT ![q] = "return"]
    BY DEF Dele, Alive, Goto, Talking, Holding, Inv, LinkInv
<1>2. l \in Behind /\ Fits("dele", l, client[q] \in hurt)
    BY <1>1, Talker
<1>3. PICK r \in {"ok", "bad"} : link' = [link EXCEPT ![client[q]] = After(l, r)]
    BY DEF Dele, SetLink
<1>4. /\ After(l, r) \in Behind /\ After(l, r).login = l.login /\ After(l, r).cwd = l.cwd
      /\ l.unread = <<>> => After(l, r).unread = <<>>
    BY <1>2, Read DEF Reply
<1>5. Fits("return", After(l, r), client[q] \in hurt')
    BY <1>1, <1>2, <1>4 DEF Fits
<1> QED BY <1>1, <1>3, <1>4, <1>5 DEF Moves, Holding

LEMMA BrokenMoves ==
    ASSUME Inv, NEW q \in Reqs, Broken(q)
    PROVE  Moves(q)
<1>1. /\ pc[q] \in Talking /\ pc[q] \in Holding /\ link' = link /\ Throw(q)
      /\ tree' \subseteq Dirs /\ UNCHANGED <<idle, client>>
    BY DEF Broken, serverVars, Holding, Inv, LinkInv
<1>2. LinkOf(q) \in Behind /\ link' = [link EXCEPT ![client[q]] = LinkOf(q)]
    BY <1>1, Talker
<1> QED BY <1>1, <1>2, Thrown

\* Nobody else has that link.
LEMMA TalkKeeps ==
    ASSUME Inv, NEW q \in Reqs, Talks(q)
    PROVE  LinkInv'
<1>1. pc[q] \in Holding
    BY TalkMoves DEF Inv, Holding
<1>2. Moves(q)
    BY CwdMoves, MkdMoves, StorMoves, TransferMoves, CwdRootMoves, RetrMoves, DeleMoves, BrokenMoves
       DEF Talks
<1>3. PICK x \in Holding, l \in Behind :
        /\ pc' = [pc EXCEPT ![q] = x]
        /\ link' = [link EXCEPT ![client[q]] = l]
        /\ Fits(x, l, client[q] \in hurt')
    BY <1>2 DEF Moves
<1>4. /\ client[q] \in Clients /\ client[q] # Null
      /\ hurt' \in {hurt, hurt \cup {client[q]}} /\ tree' \subseteq Dirs /\ idle' = idle /\ client' = client
    BY <1>1, <1>2, Talker DEF Moves, Inv, PoolInv
<1>5. link' \in [Clients -> Behind \cup {Null}] /\ hurt' \subseteq Clients
    BY <1>3, <1>4 DEF Inv, LinkInv
<1>6. ASSUME NEW o \in Reqs, client'[o] # Null
      PROVE  LinkOf(o)' \in Behind /\ Fits(pc'[o], LinkOf(o)', client'[o] \in hurt')
    <2>1. CASE o = q
        <3>1. pc'[q] = x /\ LinkOf(q)' = l
            BY <1>3, <1>4 DEF LinkOf, Inv, LinkInv, CallInv
        <3> QED BY <1>3, <1>4, <2>1, <3>1
    <2>2. CASE o # q
        <3>1. client[o] # client[q]
            BY <1>4, <1>6, <2>2 DEF Inv, PoolInv, NoClientShared
        <3>2. pc'[o] = pc[o] /\ LinkOf(o)' = LinkOf(o) /\ (client[o] \in hurt' <=> client[o] \in hurt)
            BY <1>3, <1>4, <3>1 DEF LinkOf, Inv, LinkInv, PoolInv, CallInv
        <3>3. (client'[o] \in hurt') = (client[o] \in hurt)
            BY <1>4, <3>2
        <3> QED BY <1>4, <1>6, <3>2, <3>3 DEF Inv, LinkInv
    <2> QED BY <2>1, <2>2
<1>7. ASSUME NEW p \in Pools, NEW c \in IdleIn(p)'
      PROVE  link'[c] \in Behind /\ Fits("return", link'[c], c \in hurt')
    <2>1. c \in IdleIn(p)
        BY <1>4 DEF IdleIn
    <2>2. c # client[q]
        BY <1>4, <2>1 DEF Inv, PoolInv, NoClientShared, Held
    <2>3. link'[c] = link[c] /\ (c \in hurt') = (c \in hurt)
        BY <1>3, <1>4, <2>2 DEF Inv, LinkInv
    <2> QED BY <2>1, <2>3 DEF Inv, LinkInv
<1> QED BY <1>4, <1>5, <1>6, <1>7 DEF LinkInv

\* A request that holds no client goes on.
LEMMA QuietKeeps ==
    ASSUME Inv, NEW q \in Reqs, Call(q) \/ GetInstance(q) \/ ConnectFails(q)
    PROVE  LinkInv'
<1>1. /\ pc[q] \notin Holding
      /\ \E x : pc' = [pc EXCEPT ![q] = x]
      /\ UNCHANGED <<idle, client, link, hurt, tree>>
    BY DEF Call, GetInstance, FindPool, CreatePool, EnterPool, ConnectFails, MakeFails, MayMake, Goto,
       serverVars, Holding, Talking
<1>2. client[q] = Null
    BY <1>1 DEF Inv, PoolInv
<1>3. \A o \in Reqs : client'[o] # Null => pc'[o] = pc[o] /\ LinkOf(o)' = LinkOf(o)
    BY <1>1, <1>2 DEF LinkOf, Inv, CallInv
<1>4. \A p \in Pools : IdleIn(p)' = IdleIn(p)
    BY <1>1 DEF IdleIn
<1> QED BY <1>1, <1>3, <1>4 DEF Inv, LinkInv

\* A link that was idle, or that is new, fits any command a call begins with.
LEMMA FirstFits ==
    ASSUME NEW f \in Form, NEW l, NEW bad, Fits("return", l, bad)
    PROVE  Fits(First(f), l, bad)
<1>1. f.op \in {"store", "load", "delete"}
    BY DEF Form
<1>2. First(f) \in {"stor", "cwd", "retr", "dele"}
    BY <1>1 DEF First, EnterDirs
<1> QED BY <1>2 DEF Fits

LEMMA TakeKeeps ==
    ASSUME Inv, NEW q \in Reqs, TakeLink(q)
    PROVE  LinkInv'
<1> DEFINE s == idle[at[q]]
           c == Head(s)
<1>1. /\ pc[q] = "wait" /\ s # <<>>
      /\ client' = [client EXCEPT ![q] = c]
      /\ idle' = [idle EXCEPT ![at[q]] = Tail(s)]
      /\ pc' = [pc EXCEPT ![q] = First(form[q])]
      /\ UNCHANGED <<link, hurt, tree>>
    BY DEF TakeLink, TakeIdle, Borrowed, Goto, Ready, serverVars
<1>2. at[q] \in Pools /\ s \in Seq(Clients) /\ form[q] \in Form
    BY <1>1 DEF Inv, PoolInv, CallInv
<1>3. c \in IdleIn(at[q]) /\ c \in Clients
    BY <1>1, <1>2, HeadTailProperties, EmptySeq DEF IdleIn
<1>4. \A p \in Pools : IdleIn(p)' \subseteq IdleIn(p)
    <2>1. \A i \in 1 .. Len(Tail(s)) : i + 1 \in 1 .. Len(s) /\ Tail(s)[i] = s[i + 1]
        BY <1>1, <1>2, HeadTailProperties, EmptySeq
    <2>2. ASSUME NEW p \in Pools, p = at[q]
          PROVE  IdleIn(p)' \subseteq IdleIn(p)
        <3>1. idle[p] = s /\ idle'[p] = Tail(s)
            BY <1>1, <1>2, <2>2 DEF Inv, PoolInv
        <3>2. \A i \in 1 .. Len(idle'[p]) : \E j \in 1 .. Len(idle[p]) : idle'[p][i] = idle[p][j]
            BY <2>1, <3>1
        <3> QED BY <3>2 DEF IdleIn
    <2>3. ASSUME NEW p \in Pools, p # at[q]
          PROVE  IdleIn(p)' \subseteq IdleIn(p)
        <3>1. idle'[p] = idle[p]
            BY <1>1, <2>3 DEF Inv, PoolInv
        <3> QED BY <3>1 DEF IdleIn
    <2> QED BY <2>2, <2>3
<1>5. link[c] \in Behind /\ Fits("return", link[c], c \in hurt)
    BY <1>2, <1>3 DEF Inv, LinkInv
<1>6. Fits(First(form[q]), link[c], c \in hurt)
    BY <1>2, <1>5, FirstFits
<1>7. ASSUME NEW o \in Reqs, client'[o] # Null
      PROVE  LinkOf(o)' \in Behind /\ Fits(pc'[o], LinkOf(o)', client'[o] \in hurt')
    <2>1. CASE o = q
        <3>1. pc'[q] = First(form[q]) /\ client'[q] = c /\ LinkOf(q)' = link[c]
            BY <1>1 DEF LinkOf, Inv, PoolInv, CallInv
        <3> QED BY <1>1, <1>5, <1>6, <2>1, <3>1
    <2>2. CASE o # q
        <3>1. pc'[o] = pc[o] /\ client'[o] = client[o] /\ LinkOf(o)' = LinkOf(o)
            BY <1>1, <2>2 DEF LinkOf, Inv, PoolInv, CallInv
        <3> QED BY <1>1, <1>7, <3>1 DEF Inv, LinkInv
    <2> QED BY <2>1, <2>2
<1> QED BY <1>1, <1>4, <1>7 DEF Inv, LinkInv

LEMMA ConnectKeeps ==
    ASSUME Inv, NEW q \in Reqs, Connect(q)
    PROVE  LinkInv'
<1>1. PICK c \in Clients, ok \in BOOLEAN :
        /\ MakeClient(q, c, First(form[q]))
        /\ link' = [link EXCEPT ![c] = [cwd |-> <<>>, unread |-> <<>>, login |-> ok, dead |-> FALSE]]
    BY DEF Connect
<1> DEFINE new == [cwd |-> <<>>, unread |-> <<>>, login |-> ok, dead |-> FALSE]
<1>2. /\ pc[q] = "wait" /\ c \notin InUse
      /\ client' = [client EXCEPT ![q] = c]
      /\ pc' = [pc EXCEPT ![q] = First(form[q])]
      /\ UNCHANGED <<idle, hurt, tree>>
    BY <1>1 DEF Connect, MakeClient, MayMake, Borrowed, Goto, Ready, serverVars
<1>3. form[q] \in Form
    BY <1>2 DEF Inv, CallInv
<1>4. new \in Behind /\ new.unread = <<>> /\ new.cwd = <<>>
    BY RootIsDir, EmptySeq DEF Behind, Link
<1>5. Fits("return", new, c \in hurt)
    BY <1>4 DEF Fits
<1>6. Fits(First(form[q]), new, c \in hurt)
    BY <1>3, <1>5, FirstFits
<1>7. link'[c] = new /\ \A d \in Clients \ {c} : link'[d] = link[d]
    BY <1>1 DEF Inv, LinkInv
<1> HIDE DEF new
<1>8. link' \in [Clients -> Behind \cup {Null}]
    BY <1>1, <1>4 DEF Inv, LinkInv, new
<1>9. ASSUME NEW o \in Reqs, client'[o] # Null
      PROVE  LinkOf(o)' \in Behind /\ Fits(pc'[o], LinkOf(o)', client'[o] \in hurt')
    <2>1. CASE o = q
        <3>1. pc'[q] = First(form[q]) /\ client'[q] = c /\ LinkOf(q)' = new
            BY <1>2, <1>7 DEF LinkOf, Inv, PoolInv, CallInv
        <3> QED BY <1>2, <1>4, <1>6, <2>1, <3>1
    <2>2. CASE o # q
        <3>1. pc'[o] = pc[o] /\ client'[o] = client[o] /\ client[o] \in Clients
            BY <1>2, <1>9, <2>2 DEF Inv, PoolInv, CallInv
        <3>2. client[o] # c
            BY <1>2, <1>9, <3>1 DEF InUse, Held
        <3>3. LinkOf(o)' = LinkOf(o)
            BY <1>7, <3>1, <3>2 DEF LinkOf
        <3> QED BY <1>2, <1>9, <3>1, <3>3 DEF Inv, LinkInv
    <2> QED BY <2>1, <2>2
<1>10. ASSUME NEW p \in Pools, NEW d \in IdleIn(p)'
      PROVE  link'[d] \in Behind /\ Fits("return", link'[d], d \in hurt')
    <2>1. d \in IdleIn(p) /\ d # c
        BY <1>2 DEF IdleIn, InUse
    <2>2. d \in Clients
        BY <2>1, ElementOfSeq DEF Inv, PoolInv, IdleIn
    <2> QED BY <1>2, <1>7, <2>1, <2>2 DEF Inv, LinkInv
<1> QED BY <1>2, <1>8, <1>9, <1>10 DEF Inv, LinkInv

\* A request gives back its client, which is idle then, or destroyed.
LEMMA ReturnKeeps ==
    ASSUME Inv, NEW q \in Reqs, Return(q)
    PROVE  LinkInv'
<1> DEFINE c == client[q]
<1>1. /\ pc[q] \in {"return", "giveup"} /\ pc[q] \in Holding
      /\ client' = [client EXCEPT ![q] = Null]
      /\ \E x : pc' = [pc EXCEPT ![q] = x]
      /\ tree' = tree
    BY DEF Return, GiveBack, Goto, serverVars, Holding
<1>2. /\ c \in Clients /\ c # Null /\ pool \in Pools
      /\ link[c] \in Behind /\ Fits(pc[q], link[c], c \in hurt)
    BY <1>1, Talker, ObjectPoolAssumption DEF LinkOf, ObjectPoolAssumption, Inv, PoolInv
<1>3. Fits("return", link[c], c \in hurt)
    BY <1>1, <1>2 DEF Fits
<1>4. ASSUME NEW o \in Reqs, client'[o] # Null
      PROVE  /\ o # q /\ client'[o] = client[o] /\ client[o] # Null /\ client[o] # c
             /\ client[o] \in Clients /\ pc'[o] = pc[o]
    <2>1. o # q
        BY <1>1, <1>4 DEF Inv, PoolInv
    <2>2. client'[o] = client[o] /\ pc'[o] = pc[o]
        BY <1>1, <2>1 DEF Inv, PoolInv, CallInv
    <2> QED BY <1>2, <1>4, <2>1, <2>2 DEF Inv, PoolInv, NoClientShared
<1> HIDE DEF c
<1>5. CASE Keeps(pool)
    <2>1. idle' = [idle EXCEPT ![pool] = <<c>> \o @] /\ UNCHANGED <<link, hurt>>
        BY <1>5 DEF Return, GiveBack, c
    <2>2. ASSUME NEW p \in Pools
          PROVE  IdleIn(p)' \subseteq IdleIn(p) \cup {c}
        <3>1. CASE p = pool
            <4> DEFINE s == idle[p]
                       t == <<c>> \o s
            <4>1. s \in Seq(Clients) /\ idle'[p] = t
                BY <1>2, <2>1, <3>1 DEF Inv, PoolInv
            <4>2. /\ Len(s) \in Nat /\ Len(t) = Len(s) + 1
                  /\ \A i \in 1 .. (Len(s) + 1) :
                        /\ i = 1 => t[i] = c
                        /\ i # 1 => i - 1 \in 1 .. Len(s) /\ t[i] = s[i - 1]
                BY <1>2, <4>1, PU!PutFirst
            <4> HIDE DEF t
            <4>3. \A i \in 1 .. Len(t) : t[i] = c \/ \E j \in 1 .. Len(s) : t[i] = s[j]
                BY <4>2
            <4> QED BY <4>1, <4>3 DEF IdleIn
        <3>2. CASE p # pool
            <4>1. idle'[p] = idle[p]
                BY <2>1, <3>2 DEF Inv, PoolInv
            <4> QED BY <4>1 DEF IdleIn
        <3> QED BY <3>1, <3>2
    <2>3. \A p \in Pools : \A d \in IdleIn(p)' : link'[d] \in Behind /\ Fits("return", link'[d], d \in hurt')
        BY <1>2, <1>3, <2>1, <2>2 DEF Inv, LinkInv
    <2>4. \A o \in Reqs : client'[o] # Null => pc'[o] = pc[o] /\ client'[o] = client[o] /\ LinkOf(o)' = LinkOf(o)
        BY <1>4, <2>1 DEF LinkOf
    <2> QED BY <1>1, <2>1, <2>3, <2>4 DEF Inv, LinkInv
<1>6. CASE ~ Keeps(pool)
    <2>1. idle' = idle /\ link' = [link EXCEPT ![c] = Null] /\ hurt' = hurt \ {c}
        BY <1>6 DEF Return, GiveBack, Destroy, c
    <2>2. \A d \in Clients \ {c} : link'[d] = link[d] /\ (d \in hurt') = (d \in hurt)
        BY <2>1 DEF Inv, LinkInv
    <2>3. link' \in [Clients -> Behind \cup {Null}] /\ hurt' \subseteq Clients
        BY <2>1 DEF Inv, LinkInv
    <2>4. ASSUME NEW o \in Reqs, client'[o] # Null
          PROVE  LinkOf(o)' \in Behind /\ Fits(pc'[o], LinkOf(o)', client'[o] \in hurt')
        <3>1. LinkOf(o)' = LinkOf(o) /\ (client'[o] \in hurt') = (client[o] \in hurt)
            BY <1>4, <2>2, <2>4 DEF LinkOf
        <3> QED BY <1>4, <2>4, <3>1 DEF Inv, LinkInv
    <2>5. ASSUME NEW p \in Pools, NEW d \in IdleIn(p)'
          PROVE  link'[d] \in Behind /\ Fits("return", link'[d], d \in hurt')
        <3>1. d \in IdleIn(p)
            BY <2>1 DEF IdleIn
        <3>2. d # c
            BY <1>2, <3>1 DEF Inv, PoolInv, NoClientShared, Held, c
        <3>3. d \in Clients
            BY <3>1, ElementOfSeq DEF Inv, PoolInv, IdleIn
        <3>4. link'[d] = link[d] /\ (d \in hurt') = (d \in hurt)
            BY <2>2, <3>2, <3>3
        <3> QED BY <3>1, <3>4 DEF Inv, LinkInv
    <2> QED BY <1>1, <2>3, <2>4, <2>5 DEF Inv, LinkInv
<1> QED BY <1>5, <1>6

\* The elements that stay when the one at k leaves.
LEMMA Stays ==
    ASSUME NEW S, NEW s \in Seq(S), NEW k \in 1 .. Len(s)
    PROVE  LET t == SubSeq(s, 1, k - 1) \o SubSeq(s, k + 1, Len(s)) IN
           /\ Len(t) = Len(s) - 1
           /\ \A j \in 1 .. Len(t) : \E n \in 1 .. Len(s) : n # k /\ t[j] = s[n]
<1> DEFINE a == SubSeq(s, 1, k - 1)
           b == SubSeq(s, k + 1, Len(s))
<1>1. Len(s) \in Nat /\ \A i \in 1 .. Len(s) : s[i] \in S
    BY LenProperties, ElementOfSeq
<1>2. a \in Seq(S) /\ Len(a) = k - 1 /\ \A i \in 1 .. Len(a) : a[i] = s[i]
    <2>1. /\ a \in Seq(S)
          /\ Len(a) = IF 1 <= k - 1 THEN k - 1 - 1 + 1 ELSE 0
          /\ \A i \in 1 .. (k - 1 - 1 + 1) : a[i] = s[1 + i - 1]
        BY <1>1, SubSeqProperties
    <2> HIDE DEF a
    <2> QED BY <1>1, <2>1
<1>3. b \in Seq(S) /\ Len(b) = Len(s) - k /\ \A i \in 1 .. Len(b) : b[i] = s[k + i]
    <2>1. /\ b \in Seq(S)
          /\ Len(b) = IF k + 1 <= Len(s) THEN Len(s) - (k + 1) + 1 ELSE 0
          /\ \A i \in 1 .. (Len(s) - (k + 1) + 1) : b[i] = s[k + 1 + i - 1]
        BY <1>1, SubSeqProperties
    <2> HIDE DEF b
    <2> QED BY <1>1, <2>1
<1> HIDE DEF a, b
<1> DEFINE t == a \o b
<1>4. /\ Len(t) = Len(a) + Len(b)
      /\ \A j \in 1 .. (Len(a) + Len(b)) : t[j] = IF j <= Len(a) THEN a[j] ELSE b[j - Len(a)]
    BY <1>2, <1>3, ConcatProperties
<1> HIDE DEF t
<1>5. ASSUME NEW j \in 1 .. Len(t)
      PROVE  \E n \in 1 .. Len(s) : n # k /\ t[j] = s[n]
    <2>1. CASE j <= Len(a)
        <3>1. j \in 1 .. Len(a) /\ j \in 1 .. Len(s) /\ j # k
            BY <1>1, <1>2, <2>1
        <3>2. t[j] = s[j]
            BY <1>2, <1>3, <1>4, <2>1, <3>1
        <3> QED BY <3>1, <3>2
    <2>2. CASE ~ (j <= Len(a))
        <3>1. j - Len(a) \in 1 .. Len(b) /\ k + (j - Len(a)) = j + 1 /\ j + 1 \in 1 .. Len(s) /\ j + 1 # k
            <4>1. Len(a) = k - 1 /\ Len(b) = Len(s) - k /\ Len(t) = Len(s) - 1
                BY <1>1, <1>2, <1>3, <1>4
            <4>2. j \in 1 .. (Len(s) - 1) /\ ~ (j <= k - 1) /\ Len(s) \in Nat
                BY <1>1, <2>2, <4>1
            <4>3. j - (k - 1) \in 1 .. (Len(s) - k) /\ k + (j - (k - 1)) = j + 1
                BY <4>2
            <4> QED BY <4>1, <4>2, <4>3
        <3>2. t[j] = b[j - Len(a)]
            <4>1. j \in 1 .. (Len(a) + Len(b))
                BY <1>4
            <4> QED BY <1>4, <2>2, <4>1
        <3>3. t[j] = s[j + 1]
            BY <1>3, <3>1, <3>2
        <3> QED BY <3>1, <3>3
    <2> QED BY <2>1, <2>2
<1>6. Len(t) = Len(s) - 1
    BY <1>1, <1>2, <1>3, <1>4
<1> QED BY <1>5, <1>6 DEF t, a, b

\* An idle client that is destroyed was on one list only, once.
LEMMA EvictKeeps ==
    ASSUME Inv, EvictLink
    PROVE  LinkInv'
<1>1. PICK p \in Pools, i \in 1 .. MaxIdle : Evict(p, i) /\ Destroy(idle[p][i])
    BY DEF EvictLink
<1> DEFINE s == idle[p]
           c == s[i]
           t == SubSeq(s, 1, i - 1) \o SubSeq(s, i + 1, Len(s))
<1>2. /\ i \in 1 .. Len(s) /\ idle' = [idle EXCEPT ![p] = t]
      /\ link' = [link EXCEPT ![c] = Null] /\ hurt' = hurt \ {c}
      /\ UNCHANGED <<pc, client, tree>>
    BY <1>1 DEF Evict, Destroy, EvictLink, serverVars
<1>3. s \in Seq(Clients) /\ idle'[p] = t /\ \A r \in Pools \ {p} : idle'[r] = idle[r]
    BY <1>2 DEF Inv, PoolInv
<1>4. c \in Clients /\ c \in IdleIn(p)
    BY <1>2, <1>3, ElementOfSeq DEF IdleIn
<1>5. \A j \in 1 .. Len(t) : \E k \in 1 .. Len(s) : k # i /\ t[j] = s[k]
    <2>1. s \in Seq(Clients) /\ i \in 1 .. Len(s)
        BY <1>2, <1>3
    <2> HIDE DEF s
    <2> QED BY <2>1, Stays DEF t
<1>6. \A k \in 1 .. Len(s) : k # i => s[k] # c
    BY <1>2 DEF Inv, PoolInv, NoClientShared
<1>7. ASSUME NEW r \in Pools
      PROVE  IdleIn(r)' \subseteq IdleIn(r) \ {c}
    <2>1. CASE r = p
        <3> HIDE DEF t
        <3>1. \A d \in IdleIn(p)' : \E k \in 1 .. Len(s) : k # i /\ d = s[k]
            BY <1>3, <1>5 DEF IdleIn
        <3> QED BY <1>6, <2>1, <3>1 DEF IdleIn
    <2>2. CASE r # p
        <3>1. c \notin IdleIn(r)
            BY <1>2, <2>2 DEF Inv, PoolInv, NoClientShared, IdleIn
        <3>2. IdleIn(r)' = IdleIn(r)
            BY <1>3, <2>2 DEF IdleIn
        <3> QED BY <3>1, <3>2
    <2> QED BY <2>1, <2>2
<1> HIDE DEF t
<1>8. \A d \in Clients \ {c} : link'[d] = link[d] /\ (d \in hurt') = (d \in hurt)
    BY <1>2 DEF Inv, LinkInv
<1> HIDE DEF c
<1>9. link' \in [Clients -> Behind \cup {Null}] /\ hurt' \subseteq Clients
    BY <1>2 DEF Inv, LinkInv
<1>10. ASSUME NEW o \in Reqs, client'[o] # Null
       PROVE  LinkOf(o)' \in Behind /\ Fits(pc'[o], LinkOf(o)', client'[o] \in hurt')
    <2>1. client'[o] = client[o] /\ pc'[o] = pc[o] /\ client[o] \in Clients
        BY <1>2, <1>10 DEF Inv, PoolInv
    <2>2. client[o] # c
        BY <1>4, <1>10, <2>1 DEF Inv, PoolInv, NoClientShared, Held
    <2>3. LinkOf(o)' = LinkOf(o) /\ (client'[o] \in hurt') = (client[o] \in hurt)
        BY <1>8, <2>1, <2>2 DEF LinkOf
    <2> QED BY <1>10, <2>1, <2>3 DEF Inv, LinkInv
<1>11. ASSUME NEW r \in Pools, NEW d \in IdleIn(r)'
       PROVE  link'[d] \in Behind /\ Fits("return", link'[d], d \in hurt')
    <2>1. d \in IdleIn(r) /\ d # c
        BY <1>7
    <2>2. d \in Clients
        BY <2>1, ElementOfSeq DEF Inv, PoolInv, IdleIn
    <2>3. link'[d] = link[d] /\ (d \in hurt') = (d \in hurt)
        BY <1>8, <2>1, <2>2
    <2> QED BY <2>1, <2>3 DEF Inv, LinkInv
<1> QED BY <1>2, <1>9, <1>10, <1>11 DEF Inv, LinkInv

\* A connection that breaks stands where it stood.
LEMMA DropKeeps ==
    ASSUME Inv, Drop
    PROVE  LinkInv'
<1>1. PICK c \in Clients : link[c] # Null /\ link' = [link EXCEPT ![c].dead = TRUE]
    BY DEF Drop
<1>2. UNCHANGED <<idle, pc, client, tree, hurt>>
    BY DEF Drop, poolVars, serverVars
<1> DEFINE k == [link[c] EXCEPT !.dead = TRUE]
<1>3. link[c] \in Behind /\ link' = [link EXCEPT ![c] = k]
    BY <1>1 DEF Inv, LinkInv
<1>4. k \in Link /\ k.unread = link[c].unread /\ k.cwd = link[c].cwd /\ k.login = link[c].login
    BY <1>3 DEF Behind, Link
<1>5. k \in Behind
    BY <1>3, <1>4 DEF Behind
<1> HIDE DEF k
<1>6. ASSUME NEW d \in Clients, link[d] \in Behind
      PROVE  /\ link'[d] \in Behind
             /\ \A x, bad : Fits(x, link[d], bad) => Fits(x, link'[d], bad)
    <2>1. CASE d = c
        <3>1. link'[d] = k
            BY <1>3, <2>1 DEF Inv, LinkInv
        <3> QED BY <1>4, <1>5, <2>1, <3>1 DEF Fits
    <2>2. CASE d # c
        <3>1. link'[d] = link[d]
            BY <1>1, <2>2 DEF Inv, LinkInv
        <3> QED BY <1>6, <3>1
    <2> QED BY <2>1, <2>2
<1>7. link' \in [Clients -> Behind \cup {Null}]
    BY <1>3, <1>5 DEF Inv, LinkInv
<1>8. ASSUME NEW o \in Reqs, client'[o] # Null
      PROVE  LinkOf(o)' \in Behind /\ Fits(pc'[o], LinkOf(o)', client'[o] \in hurt')
    <2>1. client[o] \in Clients /\ LinkOf(o) \in Behind /\ Fits(pc[o], LinkOf(o), client[o] \in hurt)
        BY <1>2, <1>8 DEF Inv, PoolInv, LinkInv
    <2> QED BY <1>2, <1>6, <2>1 DEF LinkOf
<1>9. ASSUME NEW p \in Pools, NEW d \in IdleIn(p)'
      PROVE  link'[d] \in Behind /\ Fits("return", link'[d], d \in hurt')
    <2>1. d \in IdleIn(p)
        BY <1>2 DEF IdleIn
    <2>2. d \in Clients
        BY <2>1, ElementOfSeq DEF Inv, PoolInv, IdleIn
    <2> QED BY <1>2, <1>6, <2>1, <2>2 DEF Inv, LinkInv
<1> QED BY <1>2, <1>7, <1>8, <1>9 DEF Inv, LinkInv

-----------------------------------------------------------------------------
(* The induction.                                                            *)

LEMMA InitLink == Init => LinkInv
<1> SUFFICES ASSUME Init PROVE LinkInv
    OBVIOUS
<1>1. tree \subseteq Dirs
    BY RootIsDir DEF Init
<1>2. \A p \in Pools : IdleIn(p) = {}
    BY EmptySeq DEF Init, PoolInit, IdleIn
<1> QED BY <1>1, <1>2 DEF Init, PoolInit, LinkInv

LEMMA NextLink == Inv /\ [Next]_vars => LinkInv'
<1> SUFFICES ASSUME Inv, [Next]_vars PROVE LinkInv'
    OBVIOUS
<1>1. ASSUME NEW q \in Reqs, Call(q) \/ Step(q)
      PROVE  LinkInv'
    BY <1>1, QuietKeeps, TakeKeeps, ConnectKeeps, TalkKeeps, ReturnKeeps DEF Step, Talks
<1>2. CASE UNCHANGED vars
    <2>1. UNCHANGED <<idle, pc, client, link, tree, hurt>>
        BY <1>2 DEF vars, poolVars, serverVars
    <2> QED BY <2>1 DEF Inv, LinkInv, LinkOf, IdleIn
<1> QED BY <1>1, <1>2, EvictKeeps, DropKeeps DEF Next

LEMMA LinkInduction == Spec => []Inv
<1>1. Spec => [](CallInv /\ PoolInv)
    BY CallInduction, PoolInduction, PTL
<1>2. CallInv /\ PoolInv /\ LinkInv /\ [Next]_vars => LinkInv'
    BY NextLink DEF Inv
<1>3. Spec => []LinkInv
    BY InitLink, <1>1, <1>2, PTL DEF Spec
<1> QED BY <1>1, <1>3, PTL DEF Inv

(***************************************************************************)
(* An idle connection on which nothing has thrown stands in the root with  *)
(* every reply read, so that the next call gets the answers to its own     *)
(* commands: storeFile changes back to the root, and the loads read the    *)
(* reply that ends a transfer.                                             *)
(***************************************************************************)
THEOREM LinksReady == Spec => []IdleLinksReady
<1>1. Inv => IdleLinksReady
    BY DEF Inv, LinkInv, IdleLinksReady, Fits
<1> QED BY <1>1, LinkInduction, PTL

-----------------------------------------------------------------------------
(* Types.                                                                    *)

DataInv ==
    /\ rest \in [Reqs -> Dirs]
    /\ file \in [Dirs -> File \cup {Null}]
    /\ put \in [Reqs -> Dirs \cup {Null}]
    /\ got \in [Reqs -> File \cup {Null}]
    /\ refused \subseteq Reqs
    /\ \A q \in Reqs :
        /\ pc[q] \in {"cwd", "mkd", "cwdAgain"} => rest[q] # <<>>
        /\ pc[q] = "transfer" => put[q] \in Dirs

IdleBound == \A p \in Pools : Len(idle[p]) <= MaxIdle

LEMMA TailIsDir ==
    ASSUME NEW d \in Dirs, d # <<>>
    PROVE  Tail(d) \in Dirs
<1>1. PICK n \in 0 .. MaxDepth : d \in [1 .. n -> Names]
    BY DEF Dirs
<1>2. MaxDepth \in Nat
    BY FtpStorageAssumption DEF FtpStorageAssumption
<1>3. d \in Seq(Names) /\ Len(d) = n
    BY <1>1, <1>2
<1>4. n # 0
    BY <1>3, EmptySeq
<1>5. Tail(d) \in Seq(Names) /\ Len(Tail(d)) = n - 1
    BY <1>3, HeadTailProperties
<1>6. Tail(d) \in [1 .. n - 1 -> Names]
    BY <1>5, LenProperties
<1> QED BY <1>2, <1>4, <1>6 DEF Dirs

\* A call begins with a CWD only if it has a directory to enter.
LEMMA FirstStep ==
    ASSUME NEW f \in Form
    PROVE  /\ f.op = "store" => f.dir \in Dirs
           /\ First(f) \in {"cwd", "mkd", "cwdAgain"} => f.op = "store" /\ f.dir # <<>>
           /\ First(f) # "transfer"
<1>1. f.op \in {"store", "load", "delete"} /\ f.dir \in Dirs
    BY DEF Form
<1> QED BY <1>1 DEF First, EnterDirs

LEMMA StartData ==
    ASSUME Inv, DataInv, NEW q \in Reqs, TakeLink(q) \/ Connect(q)
    PROVE  DataInv'
<1>1. /\ pc[q] = "wait" /\ pc' = [pc EXCEPT ![q] = First(form[q])]
      /\ rest' = [rest EXCEPT ![q] = IF Op(q) = "store" THEN form[q].dir ELSE <<>>]
      /\ UNCHANGED <<file, put, got, refused>>
    BY DEF TakeLink, TakeIdle, Connect, MakeClient, MayMake, Goto, Ready, serverVars
<1>2. form[q] \in Form
    BY <1>1 DEF Inv, CallInv
<1> QED BY <1>1, <1>2, FirstStep, RootIsDir DEF Inv, CallInv, DataInv, Op

LEMMA EnterData ==
    ASSUME Inv, DataInv, NEW q \in Reqs, Cwd(q) \/ Mkd(q)
    PROVE  DataInv'
<1>1. pc[q] \in {"cwd", "mkd", "cwdAgain"} /\ UNCHANGED <<file, put, got>>
    BY DEF Cwd, Mkd, Alive, serverVars
<1>2. rest[q] \in Dirs /\ rest[q] # <<>>
    BY <1>1 DEF DataInv
<1>3. Tail(rest[q]) \in Dirs
    BY <1>2, TailIsDir
<1>4. CASE Cwd(q)
    <2>1. refused' = refused
        BY <1>4 DEF Cwd
    <2>2. \/ /\ rest' = [rest EXCEPT ![q] = Tail(@)]
             /\ pc' = [pc EXCEPT ![q] = EnterDirs(Tail(rest[q]))]
          \/ rest' = rest /\ pc' = [pc EXCEPT ![q] = "mkd"]
        BY <1>4 DEF Cwd, Goto
    <2>3. CASE rest' = [rest EXCEPT ![q] = Tail(@)] /\ pc' = [pc EXCEPT ![q] = EnterDirs(Tail(rest[q]))]
        <3> DEFINE t == Tail(rest[q])
        <3>1. /\ EnterDirs(t) # "transfer"
              /\ EnterDirs(t) \in {"cwd", "mkd", "cwdAgain"} => t # <<>>
            BY DEF EnterDirs
        <3> HIDE DEF t
        <3>2. rest' = [rest EXCEPT ![q] = t] /\ pc' = [pc EXCEPT ![q] = EnterDirs(t)] /\ t \in Dirs
            BY <1>3, <2>3 DEF t
        <3> QED BY <1>1, <2>1, <3>1, <3>2 DEF Inv, CallInv, DataInv
    <2>4. CASE rest' = rest /\ pc' = [pc EXCEPT ![q] = "mkd"]
        BY <1>1, <1>2, <2>1, <2>4 DEF Inv, CallInv, DataInv
    <2> QED BY <2>2, <2>3, <2>4
<1>5. CASE Mkd(q)
    <2>1. rest' = rest /\ pc' = [pc EXCEPT ![q] = "cwdAgain"] /\ refused' \in {refused, refused \cup {q}}
        BY <1>5 DEF Mkd, Goto
    <2> QED BY <1>1, <1>2, <2>1 DEF Inv, CallInv, DataInv
<1> QED BY <1>4, <1>5

\* The other commands: the request goes on to x.
LEMMA OtherData ==
    ASSUME Inv, DataInv, NEW q \in Reqs,
           NEW x \in {"root", "return", "giveup"}, pc' = [pc EXCEPT ![q] = x],
           rest' = rest, put' = put,
           refused' \in {refused, refused \cup {q}},
           file' = file \/ \E d \in Dirs, v \in File \cup {Null} : file' = [file EXCEPT ![d] = v],
           got' = got \/ \E v \in File \cup {Null} : got' = [got EXCEPT ![q] = v]
    PROVE  DataInv'
<1>1. file' \in [Dirs -> File \cup {Null}] /\ got' \in [Reqs -> File \cup {Null}]
    BY DEF DataInv
<1>2. refused' \subseteq Reqs
    BY DEF DataInv
<1>3. ASSUME NEW o \in Reqs
      PROVE  /\ pc'[o] \in {"cwd", "mkd", "cwdAgain"} => rest'[o] # <<>>
             /\ pc'[o] = "transfer" => put'[o] \in Dirs
    <2>1. pc'[o] = pc[o] \/ pc'[o] = x
        BY DEF Inv, CallInv
    <2> QED BY <2>1 DEF DataInv
<1> QED BY <1>1, <1>2, <1>3 DEF DataInv

LEMMA StorData ==
    ASSUME Inv, DataInv, NEW q \in Reqs, Stor(q)
    PROVE  DataInv'
<1>1. rest' = rest
    BY DEF Stor
<1>2. CASE NoPort(q, "root") \/ BadPort(q) \/ Refuse(q, "root")
    BY <1>1, <1>2, OtherData DEF NoPort, BadPort, Refuse, Throw, Goto
<1>3. CASE StorAccepted(q)
    <2>1. LinkOf(q) \in Behind
        BY Talker DEF Stor, Alive, Holding, Talking
    <2>2. LinkOf(q).cwd \in Dirs
        BY <2>1 DEF Behind, Link
    <2>3. PICK v \in File : file' = [file EXCEPT ![LinkOf(q).cwd] = v]
        <3>1. \A w \in {"partial", "mixed"} : [by |-> q, is |-> w] \in File
            BY DEF File
        <3> QED BY <1>3, <3>1 DEF StorAccepted
    <2>4. /\ put' = [put EXCEPT ![q] = LinkOf(q).cwd]
          /\ pc' = [pc EXCEPT ![q] = "transfer"] /\ UNCHANGED <<got, refused>>
        BY <1>3 DEF StorAccepted, Goto
    <2> QED BY <1>1, <2>2, <2>3, <2>4 DEF Inv, CallInv, DataInv
<1> QED BY <1>2, <1>3 DEF Stor

LEMMA TransferData ==
    ASSUME Inv, DataInv, NEW q \in Reqs, Transfer(q)
    PROVE  DataInv'
<1>1. rest' = rest /\ put[q] \in Dirs
    BY DEF Transfer, DataInv
<1>2. Written(q) \in File \cup {Null}
    <2>1. file[put[q]] \in File \cup {Null}
        BY <1>1 DEF DataInv
    <2>2. \A f \in File : [f EXCEPT !.is = "mixed"] \in File
        BY DEF File
    <2>3. [by |-> q, is |-> "whole"] \in File
        BY DEF File
    <2> QED BY <2>1, <2>2, <2>3 DEF Written
<1>3. /\ put' = put /\ got' = got /\ refused' \in {refused, refused \cup {q}}
      /\ file' = file \/ file' = [file EXCEPT ![put[q]] = Written(q)]
      /\ \E x \in {"root", "giveup"} : pc' = [pc EXCEPT ![q] = x]
    BY DEF Transfer, Refuse, Interrupted, Throw, Goto
<1> QED BY <1>1, <1>2, <1>3, OtherData

LEMMA LastData ==
    ASSUME Inv, DataInv, NEW q \in Reqs, CwdRoot(q) \/ Retr(q) \/ Dele(q) \/ Broken(q)
    PROVE  DataInv'
<1>1. pc[q] # "idle"
    BY DEF CwdRoot, Retr, Dele, Broken, Alive, Talking
<1>2. form[q].dir \in Dirs
    BY <1>1 DEF Inv, CallInv, Form
<1>3. file[form[q].dir] \in File \cup {Null}
    BY <1>2 DEF DataInv
<1>4. rest' = rest /\ put' = put /\ refused' \in {refused, refused \cup {q}}
    BY DEF CwdRoot, Retr, NoPort, BadPort, NoFile, RetrAccepted, Refuse, Interrupted, Dele, Broken, callVars
<1>5. \E x \in {"return", "giveup"} : pc' = [pc EXCEPT ![q] = x]
    BY DEF CwdRoot, Retr, NoPort, BadPort, NoFile, RetrAccepted, Refuse, Interrupted, Dele, Broken, Throw, Goto
<1>6. file' = file \/ file' = [file EXCEPT ![form[q].dir] = Null]
    BY DEF CwdRoot, Retr, NoPort, BadPort, NoFile, RetrAccepted, Refuse, Interrupted, Dele, Broken, serverVars
<1>7. got' = got \/ got' = [got EXCEPT ![q] = file[form[q].dir]]
    BY DEF CwdRoot, Retr, NoPort, BadPort, NoFile, RetrAccepted, Refuse, Interrupted, Dele, Broken, callVars
<1> QED BY <1>2, <1>3, <1>4, <1>5, <1>6, <1>7, OtherData

\* The steps of the pool, and those of nobody.
LEMMA PoolData ==
    ASSUME Inv, DataInv,
           \/ \E q \in Reqs : Call(q) \/ GetInstance(q) \/ ConnectFails(q) \/ Return(q)
           \/ EvictLink \/ Drop \/ UNCHANGED vars
    PROVE  DataInv'
<1>1. UNCHANGED <<rest, file, put, got, refused>>
    BY DEF Call, GetInstance, ConnectFails, Return, EvictLink, Drop, vars, callVars, serverVars
<1>2. \/ pc' = pc
      \/ \E q \in Reqs, x \in PcSet \ Talking : pc' = [pc EXCEPT ![q] = x]
    BY DEF Call, GetInstance, FindPool, CreatePool, EnterPool, ConnectFails, MakeFails, Return, GiveBack,
        EvictLink, Evict, Drop, vars, poolVars, Goto, PcSet, Talking, Ended
<1> QED BY <1>1, <1>2 DEF Inv, CallInv, DataInv, Talking

LEMMA InitData == Init => DataInv
BY RootIsDir DEF Init, PoolInit, DataInv

LEMMA NextData == Inv /\ DataInv /\ [Next]_vars => DataInv'
BY StartData, EnterData, StorData, TransferData, LastData, PoolData DEF Next, Step

\* A client is put on a list that has room.
LEMMA NextBound == Inv /\ IdleBound /\ [Next]_vars => IdleBound'
<1> SUFFICES ASSUME Inv, IdleBound, [Next]_vars PROVE IdleBound'
    OBVIOUS
<1>1. idle \in [Pools -> Seq(Clients)] /\ \A p \in Pools : Len(idle[p]) \in Nat
    BY LenProperties DEF Inv, PoolInv
<1>2. ASSUME NEW q \in Reqs, Return(q)
      PROVE  IdleBound'
    <2>1. client[q] \in Clients
        BY <1>2, Talker DEF Return, Holding
    <2>2. CASE Keeps(pool)
        <3>1. idle' = [idle EXCEPT ![pool] = <<client[q]>> \o @]
            BY <1>2, <2>2 DEF Return, GiveBack
        <3>2. ASSUME NEW p \in Pools
              PROVE  Len(idle'[p]) <= MaxIdle
            <4>1. CASE p = pool
                <5>1. Len(<<client[q]>> \o idle[p]) = Len(idle[p]) + 1
                    BY <1>1, <2>1, PU!PutFirst
                <5>2. Len(idle[p]) < MaxIdle /\ idle'[p] = <<client[q]>> \o idle[p]
                    BY <1>1, <2>2, <3>1, <4>1 DEF Keeps
                <5> QED BY <1>1, <5>1, <5>2, ObjectPoolAssumption DEF ObjectPoolAssumption
            <4>2. CASE p # pool
                BY <1>1, <3>1, <4>2 DEF IdleBound
            <4> QED BY <4>1, <4>2
        <3> QED BY <3>2 DEF IdleBound
    <2>3. CASE ~ Keeps(pool)
        BY <1>2, <2>3 DEF Return, GiveBack, IdleBound
    <2> QED BY <2>2, <2>3
<1>3. ASSUME NEW q \in Reqs, TakeLink(q)
      PROVE  IdleBound'
    <2>1. at[q] \in Pools /\ idle[at[q]] # <<>> /\ idle' = [idle EXCEPT ![at[q]] = Tail(@)]
        BY <1>3 DEF TakeLink, TakeIdle, Inv, PoolInv
    <2>2. Len(Tail(idle[at[q]])) = Len(idle[at[q]]) - 1
        BY <1>1, <2>1, HeadTailProperties
    <2>3. Len(idle'[at[q]]) <= MaxIdle
        BY <1>1, <2>1, <2>2, ObjectPoolAssumption DEF IdleBound, ObjectPoolAssumption
    <2>4. \A p \in Pools : p # at[q] => idle'[p] = idle[p]
        BY <1>1, <2>1
    <2> QED BY <2>3, <2>4 DEF IdleBound
<1>4. ASSUME EvictLink
      PROVE  IdleBound'
    <2>1. PICK p \in Pools, i \in 1 .. MaxIdle : Evict(p, i)
        BY <1>4 DEF EvictLink
    <2> DEFINE s == idle[p]
               t == SubSeq(s, 1, i - 1) \o SubSeq(s, i + 1, Len(s))
    <2>2. s \in Seq(Clients) /\ i \in 1 .. Len(s) /\ idle' = [idle EXCEPT ![p] = t]
        BY <1>1, <2>1 DEF Evict
    <2>3. Len(t) = Len(s) - 1
        <3> HIDE DEF s
        <3> QED BY <2>2, Stays DEF t
    <2> HIDE DEF t
    <2>4. Len(idle'[p]) <= MaxIdle
        BY <1>1, <2>2, <2>3, ObjectPoolAssumption DEF IdleBound, ObjectPoolAssumption
    <2>5. \A r \in Pools : r # p => idle'[r] = idle[r]
        BY <1>1, <2>2
    <2> QED BY <2>4, <2>5 DEF IdleBound
<1>5. CASE idle' = idle
    BY <1>5 DEF IdleBound
<1>6. ASSUME NEW q \in Reqs, Call(q) \/ GetInstance(q) \/ Connect(q) \/ ConnectFails(q) \/ Talks(q)
      PROVE  idle' = idle
    BY <1>6, TalkMoves DEF Inv, Call, GetInstance, FindPool, CreatePool, EnterPool, Connect, MakeClient,
        ConnectFails, MakeFails
<1>7. Drop \/ UNCHANGED vars => idle' = idle
    BY DEF Drop, vars, poolVars
<1> QED BY <1>2, <1>3, <1>4, <1>5, <1>6, <1>7 DEF Next, Step, Talks

(***************************************************************************)
(* FtpStorage's variables keep their types: a store has a directory left   *)
(* to enter whenever it sends a CWD, a transfer a directory it writes to;  *)
(* no connection is more than one reply behind, and no list of idle        *)
(* connections is longer than maxIdle.                                     *)
(***************************************************************************)
THEOREM TypeCorrect == Spec => []TypeOK
<1>1. Init => DataInv /\ IdleBound
    <2> SUFFICES ASSUME Init PROVE IdleBound
        BY InitData
    <2>1. \A p \in Pools : Len(idle[p]) = 0
        BY EmptySeq DEF Init, PoolInit
    <2> QED BY <2>1, ObjectPoolAssumption DEF IdleBound, ObjectPoolAssumption
<1>2. Spec => [](Inv /\ DataInv /\ IdleBound)
    BY <1>1, LinkInduction, NextData, NextBound, PTL DEF Spec
<1>3. Inv /\ DataInv /\ IdleBound => TypeOK
    <2> SUFFICES ASSUME Inv, DataInv, IdleBound PROVE TypeOK
        OBVIOUS
    <2>1. \A p \in Pools : IdleIn(p) \subseteq Clients
        BY ElementOfSeq DEF Inv, PoolInv, IdleIn
    <2>2. ASSUME NEW c \in Clients, link[c] # Null
          PROVE  /\ link[c].cwd \in Dirs /\ link[c].login \in BOOLEAN /\ link[c].dead \in BOOLEAN
                 /\ link[c].unread \in {<<>>} \cup {<<r>> : r \in Reply}
        <3>1. link[c] \in Link /\ link[c].unread \in Seq(Reply) /\ Len(link[c].unread) <= 1
            BY <2>2 DEF Inv, LinkInv, Behind, Link
        <3>2. \A u \in Seq(Reply) : Len(u) <= 1 => u \in {<<>>} \cup {<<r>> : r \in Reply}
            <4> SUFFICES ASSUME NEW u \in Seq(Reply), Len(u) <= 1, u # <<>>
                         PROVE  \E r \in Reply : u = <<r>>
                OBVIOUS
            <4>1. Len(u) = 1 /\ u[1] \in Reply
                <5>1. Len(u) \in Nat /\ Len(u) # 0
                    BY EmptySeq, LenProperties
                <5>2. \A n \in Nat : n # 0 /\ n <= 1 => n = 1
                    OBVIOUS
                <5>3. Len(u) = 1
                    BY <5>1, <5>2
                <5> QED BY <5>3, ElementOfSeq
            <4>2. u = <<u[1]>>
                BY <4>1
            <4> QED BY <4>1, <4>2
        <3> QED BY <3>1, <3>2 DEF Link
    <2> QED BY <2>1, <2>2 DEF TypeOK, Inv, CallInv, PoolInv, LinkInv, DataInv, IdleBound, PcSet
<1> QED BY <1>2, <1>3, PTL

-----------------------------------------------------------------------------
(* What a call means.                                                        *)

\* The commands belong to one kind of call each.
InvOp ==
    \A q \in Reqs :
        /\ pc[q] \in {"cwd", "mkd", "cwdAgain", "stor", "transfer", "root"} => Op(q) = "store"
        /\ pc[q] = "retr" => Op(q) = "load"
        /\ pc[q] = "dele" => Op(q) = "delete"

\* A store whose next command is x: its connection has come as far as the
\* directories left to enter say, and what it writes goes where it should.
OnTheWay(x, l, left, f, p) ==
    /\ x \in {"cwd", "mkd", "cwdAgain", "stor"} => l.cwd \o left = f.dir
    /\ x = "stor" => left = <<>>
    /\ x = "cwdAgain" => Append(l.cwd, Head(left)) \in tree
    /\ x \in {"transfer", "root"} => p = f.dir

InvWay ==
    \A q \in Reqs :
        (pc[q] \in Talking /\ Op(q) = "store" /\ Trusted(q) /\ q \notin refused)
            => OnTheWay(pc[q], LinkOf(q), rest[q], form[q], put[q])

\* Entering a directory moves it from what is left to where one stands.
LEMMA Entered ==
    ASSUME NEW s \in Dirs, NEW t \in Dirs, t # <<>>
    PROVE  Append(s, Head(t)) \o Tail(t) = s \o t
<1>1. \A d \in Dirs : d \in Seq(Names)
    BY DEF Dirs
<1>2. s \in Seq(Names) /\ t \in Seq(Names)
    BY <1>1
<1>3. /\ Head(t) \in Names /\ Tail(t) \in Seq(Names) /\ Len(Tail(t)) = Len(t) - 1
      /\ Len(t) \in Nat \ {0} /\ Head(t) = t[1]
      /\ \A i \in 1 .. Len(t) - 1 : Tail(t)[i] = t[i + 1]
    BY <1>2, HeadTailProperties, EmptySeq
<1> DEFINE a == Append(s, Head(t))
           u == a \o Tail(t)
           v == s \o t
<1>4. /\ a \in Seq(Names) /\ Len(a) = Len(s) + 1 /\ Len(s) \in Nat
      /\ \A i \in 1 .. Len(s) : a[i] = s[i]
      /\ a[Len(s) + 1] = t[1]
    BY <1>2, <1>3, AppendProperties, LenProperties
<1> HIDE DEF a
<1>5. /\ u \in Seq(Names) /\ Len(u) = Len(a) + Len(Tail(t))
      /\ \A i \in 1 .. Len(a) + Len(Tail(t)) : u[i] = IF i <= Len(a) THEN a[i] ELSE Tail(t)[i - Len(a)]
    BY <1>3, <1>4, ConcatProperties
<1>6. /\ v \in Seq(Names) /\ Len(v) = Len(s) + Len(t)
      /\ \A i \in 1 .. Len(s) + Len(t) : v[i] = IF i <= Len(s) THEN s[i] ELSE t[i - Len(s)]
    BY <1>2, ConcatProperties
<1> HIDE DEF u, v
<1>7. Len(u) = Len(v)
    BY <1>3, <1>4, <1>5, <1>6
<1>8. ASSUME NEW i \in 1 .. Len(v)
      PROVE  u[i] = v[i]
    <2> DEFINE m == Len(s)
               n == Len(t)
    <2>1. /\ m \in Nat /\ n \in Nat \ {0} /\ i \in 1 .. m + n
          /\ Len(a) = m + 1 /\ Len(Tail(t)) = n - 1
        BY <1>3, <1>4, <1>6
    <2>2. /\ u[i] = IF i <= m + 1 THEN a[i] ELSE Tail(t)[i - (m + 1)]
          /\ v[i] = IF i <= m THEN s[i] ELSE t[i - m]
        BY <2>1, <1>5, <1>6
    <2> HIDE DEF m, n
    <2>3. CASE i <= m
        <3>1. a[i] = s[i] /\ i <= m + 1
            BY <2>1, <2>3, <1>4 DEF m
        <3> QED BY <2>2, <2>3, <3>1
    <2>4. CASE i = m + 1
        <3>1. a[i] = t[1] /\ ~ i <= m /\ i <= m + 1 /\ i - m = 1
            BY <2>1, <2>4, <1>4 DEF m
        <3> QED BY <2>2, <3>1
    <2>5. CASE i > m + 1
        <3>1. /\ ~ i <= m /\ ~ i <= m + 1
              /\ i - (m + 1) \in 1 .. n - 1 /\ i - m = (i - (m + 1)) + 1
            BY <2>1, <2>5
        <3>2. Tail(t)[i - (m + 1)] = t[(i - (m + 1)) + 1]
            BY <3>1, <1>3 DEF n
        <3> QED BY <2>2, <3>1, <3>2
    <2> QED BY <2>1, <2>3, <2>4, <2>5
<1>9. u = v
    BY <1>5, <1>6, <1>7, <1>8, SeqEqual
<1> QED BY <1>9 DEF u, v, a

\* A command keeps the call, and undoes no login, no fault and no refusal.
LEMMA CommandFacts ==
    ASSUME Inv, DataInv, NEW q \in Reqs, Talks(q)
    PROVE  /\ pc[q] \in Talking /\ client' = client /\ form' = form
           /\ client[q] \in Clients /\ LinkOf(q) \in Behind
           /\ Fits(pc[q], LinkOf(q), client[q] \in hurt)
           /\ hurt \subseteq hurt' /\ refused \subseteq refused' /\ tree \subseteq tree'
           /\ LinkOf(q)'.login = LinkOf(q).login
           /\ \A o \in Reqs \ {q} : rest'[o] = rest[o] /\ put'[o] = put[o]
<1>1. pc[q] \in Talking /\ client' = client /\ pc[q] \in Holding
    BY TalkMoves DEF Inv, Holding
<1>2. client[q] \in Clients /\ LinkOf(q) \in Behind /\ Fits(pc[q], LinkOf(q), client[q] \in hurt)
    BY <1>1, Talker
<1>3. form' = form
    BY DEF Talks, Cwd, Mkd, Stor, Transfer, CwdRoot, Retr, Dele, Broken, callVars
<1>4. hurt \subseteq hurt' /\ refused \subseteq refused' /\ tree \subseteq tree'
    BY DEF Talks, Cwd, Mkd, Stor, Transfer, CwdRoot, Retr, Dele, Broken, NoPort, BadPort, Refuse,
        StorAccepted, RetrAccepted, NoFile, Interrupted, Throw, callVars, serverVars
<1> DEFINE l == LinkOf(q)
<1>5. LinkOf(q)'.login = l.login
    <2>1. \A r \in Reply : After(l, r) \in Link /\ After(l, r).login = l.login
        BY <1>2, Read DEF Behind
    <2>2. \A m : link' = [link EXCEPT ![client[q]] = m] => LinkOf(q)' = m
        BY <1>1, <1>2 DEF LinkOf, Inv, LinkInv
    <2>3. {"ok", "bad", "pasv"} \subseteq Reply
        BY DEF Reply
    <2>4. \A m \in Link : \A d : [m EXCEPT !.cwd = d].login = m.login
        BY DEF Link
    <2>5. \A m \in Link : \A d : [m EXCEPT !.unread = d].login = m.login
        BY DEF Link
    <2>6. link' = link => LinkOf(q)' = l
        BY <1>1 DEF LinkOf
    <2>7. l \in Link
        BY <1>2 DEF Behind
    <2>8. CASE Cwd(q)
        <3> DEFINE ok == l.login /\ Target(q) \in tree
                   r == IF ok THEN "ok" ELSE "bad"
                   d == IF ok THEN Target(q) ELSE After(l, r).cwd
                   k == [After(l, r) EXCEPT !.cwd = d]
        <3>1. link' = [link EXCEPT ![client[q]] = k]
            BY <2>8 DEF Cwd, SetLink
        <3>2. r \in Reply
            BY <2>3
        <3> HIDE DEF r, d
        <3>3. k.login = l.login
            BY <2>1, <2>4, <3>2
        <3>4. LinkOf(q)' = k
            BY <2>2, <3>1
        <3> HIDE DEF k
        <3> QED BY <3>3, <3>4
    <2>9. CASE Mkd(q) \/ Dele(q)
        BY <2>9, <2>1, <2>2, <2>3 DEF Mkd, Dele, SetLink
    <2>10. CASE CwdRoot(q)
        <3>1. \/ link' = [link EXCEPT ![client[q]] = [After(l, "ok") EXCEPT !.cwd = <<>>]]
              \/ link' = [link EXCEPT ![client[q]] = After(l, "bad")]
            BY <2>10 DEF CwdRoot, SetLink
        <3> DEFINE k == [After(l, "ok") EXCEPT !.cwd = <<>>]
        <3>2. k.login = l.login /\ After(l, "bad").login = l.login
            BY <2>1, <2>3, <2>4
        <3>3. LinkOf(q)' = k \/ LinkOf(q)' = After(l, "bad")
            BY <2>2, <3>1
        <3> HIDE DEF k
        <3> QED BY <3>2, <3>3
    <2>11. CASE NoPort(q, "root") \/ NoPort(q, "return") \/ BadPort(q)
        <3>1. link' = [link EXCEPT ![client[q]] = After(l, PasvReply(q))]
            BY <2>11 DEF NoPort, BadPort, SetLink
        <3>2. PasvReply(q) \in Reply
            BY <2>3 DEF PasvReply
        <3>3. LinkOf(q)' = After(l, PasvReply(q))
            BY <2>2, <3>1
        <3>4. After(l, PasvReply(q)).login = l.login
            BY <2>1, <3>2
        <3> QED BY <3>3, <3>4
    <2>12. CASE Interrupted(q)
        BY <2>12, <2>2, <2>5, <2>7 DEF Interrupted, SetLink
    <2>13. CASE link' = link
        BY <2>6, <2>13
    <2> QED BY <2>8, <2>9, <2>10, <2>11, <2>12, <2>13
            DEF Talks, Stor, Transfer, Retr, Broken, Refuse, StorAccepted, RetrAccepted, NoFile
<1>6. ASSUME NEW o \in Reqs \ {q}
      PROVE  rest'[o] = rest[o] /\ put'[o] = put[o]
    <2>1. rest' = rest \/ rest' = [rest EXCEPT ![q] = Tail(@)]
        BY DEF Talks, Cwd, Mkd, Stor, Transfer, CwdRoot, Retr, Dele, Broken, callVars
    <2>2. put' = put \/ put' = [put EXCEPT ![q] = LinkOf(q).cwd]
        BY DEF Talks, Cwd, Mkd, Stor, Transfer, CwdRoot, Retr, Dele, Broken, NoPort, BadPort, Refuse,
            StorAccepted, RetrAccepted, NoFile, Interrupted, callVars
    <2> QED BY <2>1, <2>2 DEF DataInv
<1> QED BY <1>1, <1>2, <1>3, <1>4, <1>5, <1>6

\* The next command of a store is sent from where it should be.
LEMMA OwnWay ==
    ASSUME Inv, DataInv, InvOp, InvWay, NEW q \in Reqs, Talks(q), pc'[q] \in Talking,
           Op(q) = "store", Trusted(q)', q \notin refused'
    PROVE  OnTheWay(pc[q], LinkOf(q), rest[q], form[q], put[q])'
<1> DEFINE l == LinkOf(q)
<1>1. /\ pc[q] \in Talking /\ client' = client /\ form' = form
      /\ client[q] \in Clients /\ l \in Behind
      /\ Fits(pc[q], l, client[q] \in hurt)
      /\ hurt \subseteq hurt' /\ refused \subseteq refused' /\ tree \subseteq tree'
      /\ LinkOf(q)'.login = l.login
    BY CommandFacts
<1>2. client[q] \notin hurt /\ l.login /\ q \notin refused
    BY <1>1 DEF Trusted
<1>3. l.unread = <<>> /\ l.cwd \in Dirs /\ l \in Link
    BY <1>1, <1>2 DEF Fits, Behind, Link
<1>4. OnTheWay(pc[q], l, rest[q], form[q], put[q])
    BY <1>1, <1>2 DEF InvWay, Trusted
<1>5. \A m : link' = [link EXCEPT ![client[q]] = m] => LinkOf(q)' = m
    BY <1>1 DEF LinkOf, Inv, LinkInv
<1>6. \A r \in Reply : /\ After(l, r) \in Link /\ After(l, r).cwd = l.cwd
                       /\ Answer(l, r) = r
    BY <1>1, <1>3, Read DEF Behind
<1>7. /\ \A x : pc' = [pc EXCEPT ![q] = x] => pc'[q] = x
      /\ \A x : rest' = [rest EXCEPT ![q] = x] => rest'[q] = x
      /\ \A x : put' = [put EXCEPT ![q] = x] => put'[q] = x
      /\ rest[q] \in Dirs
    BY DEF Inv, CallInv, DataInv
<1>8. CASE Cwd(q)
    <2>1. pc[q] \in {"cwd", "cwdAgain"} /\ rest[q] # <<>>
        BY <1>8 DEF Cwd, Alive, DataInv
    <2>2. l.cwd \o rest[q] = form[q].dir
        BY <1>4, <2>1 DEF OnTheWay
    <2>3. CASE Target(q) \in tree
        <3> DEFINE k == [After(l, "ok") EXCEPT !.cwd = Target(q)]
        <3>1. LinkOf(q)' = k
            BY <1>2, <1>5, <1>8, <2>3 DEF Cwd, SetLink
        <3>2. k.cwd = Append(l.cwd, Head(rest[q]))
            <4>1. "ok" \in Reply
                BY DEF Reply
            <4>2. After(l, "ok") \in Link
                BY <1>6, <4>1
            <4> QED BY <4>2 DEF Link, Target
        <3> HIDE DEF k
        <3>3. Answer(l, "ok") = "ok"
            BY <1>6 DEF Reply
        <3>4. /\ rest' = [rest EXCEPT ![q] = Tail(rest[q])]
              /\ pc' = [pc EXCEPT ![q] = EnterDirs(Tail(rest[q]))]
            BY <1>2, <1>8, <2>3, <3>3 DEF Cwd, Positive, Goto
        <3>5. rest'[q] = Tail(rest[q]) /\ pc'[q] = EnterDirs(Tail(rest[q]))
            BY <1>7, <3>4
        <3>6. Append(l.cwd, Head(rest[q])) \o Tail(rest[q]) = form[q].dir
            BY <1>3, <1>7, <2>1, <2>2, Entered
        <3>7. pc'[q] \in {"stor", "cwd"} /\ (pc'[q] = "stor" => rest'[q] = <<>>)
            BY <3>5 DEF EnterDirs
        <3> QED BY <1>1, <3>1, <3>2, <3>5, <3>6, <3>7 DEF OnTheWay
    <2>4. CASE Target(q) \notin tree
        <3>1. pc[q] = "cwd"
            BY <1>4, <2>1, <2>4 DEF OnTheWay, Target
        <3>2. Answer(l, "bad") = "bad" /\ After(l, "bad") \in Link /\ After(l, "bad").cwd = l.cwd
            BY <1>6 DEF Reply
        <3>3. rest' = rest /\ pc' = [pc EXCEPT ![q] = "mkd"]
            BY <1>8, <2>4, <3>1, <3>2 DEF Cwd, Positive, Goto
        <3>4. LinkOf(q)' = [After(l, "bad") EXCEPT !.cwd = After(l, "bad").cwd]
            BY <1>5, <1>8, <2>4 DEF Cwd, SetLink
        <3>5. LinkOf(q)'.cwd = l.cwd
            BY <3>2, <3>4 DEF Link
        <3> QED BY <1>1, <1>7, <2>2, <3>3, <3>5 DEF OnTheWay
    <2> QED BY <2>3, <2>4
<1>9. CASE Mkd(q)
    <2>1. pc[q] = "mkd" /\ rest' = rest /\ pc'[q] = "cwdAgain"
        BY <1>7, <1>9 DEF Mkd, Alive, Goto
    <2>2. l.cwd \o rest[q] = form[q].dir
        BY <1>4, <2>1 DEF OnTheWay
    <2>3. LinkOf(q)'.cwd = l.cwd
        BY <1>5, <1>6, <1>9 DEF Mkd, SetLink, Reply
    <2>4. Target(q) \in tree'
        BY <1>1, <1>9 DEF Mkd
    <2> QED BY <1>1, <2>1, <2>2, <2>3, <2>4 DEF OnTheWay, Target
<1>10. CASE Stor(q)
    <2>1. PasvRead(q) = "pasv"
        BY <1>2, <1>6 DEF PasvRead, PasvReply, Reply
    <2>2. StorAccepted(q)
        <3>1. ~ Refuse(q, "root")
            BY DEF Refuse
        <3>2. ~ BadPort(q)
            BY <1>7 DEF BadPort, Throw, Goto, Talking
        <3> QED BY <1>10, <2>1, <3>1, <3>2 DEF Stor, NoPort
    <2>3. pc[q] = "stor" /\ pc'[q] = "transfer" /\ put'[q] = l.cwd
        BY <1>7, <1>10, <2>2 DEF Stor, Alive, StorAccepted, Goto
    <2>4. rest[q] = <<>> /\ l.cwd \o rest[q] = form[q].dir
        BY <1>4, <2>3 DEF OnTheWay
    <2>5. l.cwd \in Seq(Names)
        BY <1>3 DEF Dirs
    <2>6. l.cwd = form[q].dir
        BY <2>4, <2>5, ConcatEmptySeq
    <2> QED BY <1>1, <2>3, <2>6 DEF OnTheWay
<1>11. CASE Transfer(q)
    <2>1. ~ Throw(q)
        BY <1>7 DEF Throw, Goto, Talking
    <2>2. pc[q] = "transfer" /\ pc'[q] = "root" /\ put' = put
        BY <1>7, <1>11, <2>1 DEF Transfer, Refuse, Interrupted, Goto
    <2> QED BY <1>1, <1>4, <2>2 DEF OnTheWay
<1>12. CASE CwdRoot(q) \/ Broken(q)
    BY <1>7, <1>12 DEF CwdRoot, Broken, Throw, Goto, Talking
<1>13. CASE Retr(q) \/ Dele(q)
    BY <1>13 DEF Retr, Dele, Alive, InvOp
<1> QED BY <1>8, <1>9, <1>10, <1>11, <1>12, <1>13 DEF Talks

\* A store begins in the root directory, with its whole path to go.
LEMMA StartWay ==
    ASSUME Inv, DataInv, NEW q \in Reqs, TakeLink(q) \/ Connect(q), Op(q) = "store", Trusted(q)'
    PROVE  OnTheWay(pc[q], LinkOf(q), rest[q], form[q], put[q])'
<1>1. /\ pc[q] = "wait" /\ pc' = [pc EXCEPT ![q] = First(form[q])]
      /\ rest' = [rest EXCEPT ![q] = form[q].dir]
      /\ UNCHANGED <<form, hurt>>
    BY DEF TakeLink, TakeIdle, Connect, MakeClient, MayMake, Goto, Ready
<1>2. form[q] \in Form /\ form[q].op = "store"
    BY <1>1 DEF Inv, CallInv, Op
<1>3. form[q].dir \in Seq(Names)
    BY <1>2 DEF Form, Dirs
<1>4. pc'[q] = EnterDirs(form[q].dir) /\ rest'[q] = form[q].dir
    BY <1>1, <1>2 DEF First, Inv, CallInv, DataInv
<1>5. LinkOf(q)'.cwd = <<>>
    <2>1. CASE TakeLink(q)
        <3> DEFINE s == idle[at[q]]
        <3>1. s # <<>> /\ client' = [client EXCEPT ![q] = Head(s)] /\ link' = link
            BY <2>1 DEF TakeLink, TakeIdle, Borrowed
        <3>2. at[q] \in Pools /\ s \in Seq(Clients)
            BY <1>1 DEF Inv, PoolInv
        <3>3. Head(s) \in IdleIn(at[q])
            BY <3>1, <3>2, HeadTailProperties, EmptySeq DEF IdleIn
        <3>4. LinkOf(q)' = link[Head(s)] /\ client'[q] = Head(s)
            BY <3>1 DEF LinkOf, Inv, PoolInv
        <3>5. Fits("return", link[Head(s)], Head(s) \in hurt)
            BY <3>2, <3>3 DEF Inv, LinkInv
        <3> QED BY <1>1, <3>4, <3>5 DEF Trusted, Fits
    <2>2. CASE Connect(q)
        <3>1. PICK c \in Clients, ok \in BOOLEAN :
                /\ client' = [client EXCEPT ![q] = c]
                /\ link' = [link EXCEPT ![c] = [cwd |-> <<>>, unread |-> <<>>, login |-> ok, dead |-> FALSE]]
            BY <2>2 DEF Connect, MakeClient, Borrowed
        <3>2. LinkOf(q)' = [cwd |-> <<>>, unread |-> <<>>, login |-> ok, dead |-> FALSE]
            BY <3>1 DEF LinkOf, Inv, PoolInv, LinkInv
        <3> QED BY <3>2
    <2> QED BY <2>1, <2>2
<1>6. <<>> \o form[q].dir = form[q].dir
    BY <1>3, ConcatEmptySeq
<1>7. pc'[q] \in {"stor", "cwd"} /\ (pc'[q] = "stor" => rest'[q] = <<>>)
    BY <1>4 DEF EnterDirs
<1> QED BY <1>1, <1>4, <1>5, <1>6, <1>7 DEF OnTheWay

\* What the step of another, or of nobody, leaves to a call that is talking.
Left(o) ==
    /\ pc'[o] = pc[o] /\ client'[o] = client[o] /\ form'[o] = form[o]
    /\ rest'[o] = rest[o] /\ put'[o] = put[o]
    /\ LinkOf(o)'.cwd = LinkOf(o).cwd /\ LinkOf(o)'.login = LinkOf(o).login
    /\ client[o] \in hurt => client[o] \in hurt'
    /\ refused \subseteq refused' /\ tree \subseteq tree'

LEMMA LeftByPool ==
    ASSUME Inv, DataInv, NEW o \in Reqs, pc[o] \in Talking, NEW q \in Reqs \ {o},
           Call(q) \/ GetInstance(q) \/ ConnectFails(q) \/ TakeLink(q) \/ Connect(q)
    PROVE  Left(o)
<1>1. client[o] \in Clients /\ client[o] # Null
    BY DEF Inv, PoolInv, Holding
<1>2. UNCHANGED <<put, refused, tree, hurt>>
    BY DEF Call, GetInstance, ConnectFails, TakeLink, Connect, Ready, callVars, serverVars
<1>3. pc'[o] = pc[o] /\ form'[o] = form[o] /\ rest'[o] = rest[o] /\ client'[o] = client[o]
    BY DEF Call, GetInstance, FindPool, CreatePool, EnterPool, ConnectFails, MakeFails, TakeLink, TakeIdle,
        Connect, MakeClient, Borrowed, Ready, Goto, callVars, Inv, CallInv, DataInv, PoolInv
<1>4. link'[client[o]] = link[client[o]]
    <2>1. CASE Connect(q)
        <3>1. PICK c \in Clients \ InUse :
                \E v : link' = [link EXCEPT ![c] = v]
            BY <2>1 DEF Connect, MakeClient
        <3>2. client[o] # c
            BY <1>1, <3>1 DEF InUse, Held
        <3> QED BY <1>1, <3>1, <3>2 DEF Inv, LinkInv
    <2>2. CASE link' = link
        BY <2>2
    <2> QED BY <2>1, <2>2 DEF Call, GetInstance, ConnectFails, TakeLink
<1> QED BY <1>2, <1>3, <1>4 DEF Left, LinkOf

LEMMA LeftByTalk ==
    ASSUME Inv, DataInv, NEW o \in Reqs, pc[o] \in Talking, NEW q \in Reqs \ {o}, Talks(q)
    PROVE  Left(o)
<1>1. client[o] \in Clients /\ client[o] # Null
    BY DEF Inv, PoolInv, Holding
<1>2. /\ client' = client /\ form' = form
      /\ hurt \subseteq hurt' /\ refused \subseteq refused' /\ tree \subseteq tree'
      /\ rest'[o] = rest[o] /\ put'[o] = put[o]
    BY CommandFacts
<1>3. client[o] # client[q]
    BY <1>1 DEF Inv, PoolInv, NoClientShared
<1>4. Moves(q)
    BY CwdMoves, MkdMoves, StorMoves, TransferMoves, CwdRootMoves, RetrMoves, DeleMoves, BrokenMoves
       DEF Talks
<1>5. pc'[o] = pc[o] /\ link'[client[o]] = link[client[o]]
    BY <1>1, <1>3, <1>4 DEF Moves, Inv, CallInv, LinkInv
<1> QED BY <1>2, <1>5 DEF Left, LinkOf

LEMMA LeftByReturn ==
    ASSUME Inv, DataInv, NEW o \in Reqs, pc[o] \in Talking, NEW q \in Reqs \ {o}, Return(q)
    PROVE  Left(o)
<1>1. client[o] \in Clients /\ client[o] # Null
    BY DEF Inv, PoolInv, Holding
<1>2. /\ UNCHANGED <<form, rest, put, refused, tree>>
      /\ pc'[o] = pc[o] /\ client'[o] = client[o]
    BY DEF Return, GiveBack, Goto, callVars, serverVars, Inv, CallInv, PoolInv
<1>3. client[o] # client[q]
    BY <1>1 DEF Inv, PoolInv, NoClientShared
<1>4. \/ UNCHANGED <<link, hurt>>
      \/ link' = [link EXCEPT ![client[q]] = Null] /\ hurt' = hurt \ {client[q]}
    BY DEF Return, Destroy
<1>5. link'[client[o]] = link[client[o]] /\ (client[o] \in hurt => client[o] \in hurt')
    BY <1>1, <1>3, <1>4 DEF Inv, LinkInv
<1> QED BY <1>2, <1>5 DEF Left, LinkOf

LEMMA LeftByOther ==
    ASSUME Inv, DataInv, NEW o \in Reqs, pc[o] \in Talking, EvictLink \/ Drop
    PROVE  Left(o)
<1>1. client[o] \in Clients /\ client[o] # Null /\ LinkOf(o) \in Link
    BY Talker DEF Inv, PoolInv, Holding, Behind
<1>2. UNCHANGED <<pc, client, form, rest, put, refused, tree>>
    BY DEF EvictLink, Evict, Drop, poolVars, callVars, serverVars
<1>3. CASE EvictLink
    <2>1. PICK p \in Pools, i \in 1 .. MaxIdle : Evict(p, i) /\ Destroy(idle[p][i])
        BY <1>3 DEF EvictLink
    <2>2. idle[p][i] \in IdleIn(p)
        BY <2>1 DEF Evict, IdleIn
    <2>3. client[o] # idle[p][i]
        BY <1>1, <2>2 DEF Inv, PoolInv, NoClientShared, Held
    <2>4. link'[client[o]] = link[client[o]] /\ (client[o] \in hurt => client[o] \in hurt')
        BY <1>1, <2>1, <2>3 DEF Destroy, Inv, LinkInv
    <2> QED BY <1>2, <2>4 DEF Left, LinkOf
<1>4. CASE Drop
    <2>1. PICK c \in Clients : link' = [link EXCEPT ![c].dead = TRUE]
        BY <1>4 DEF Drop
    <2>2. hurt' = hurt
        BY <1>4 DEF Drop
    <2>3. link'[client[o]] = link[client[o]] \/ link'[client[o]] = [link[client[o]] EXCEPT !.dead = TRUE]
        BY <1>1, <2>1 DEF Inv, LinkInv
    <2>4. link'[client[o]].cwd = link[client[o]].cwd /\ link'[client[o]].login = link[client[o]].login
        BY <1>1, <2>3 DEF LinkOf, Link
    <2> QED BY <1>2, <2>2, <2>4 DEF Left, LinkOf
<1> QED BY <1>3, <1>4

\* It goes on from where it was.
LEMMA LeftWay ==
    ASSUME InvWay, NEW o \in Reqs, Left(o), pc[o] \in Talking,
           Op(o)' = "store", Trusted(o)', o \notin refused'
    PROVE  OnTheWay(pc[o], LinkOf(o), rest[o], form[o], put[o])'
<1>1. Op(o) = "store" /\ Trusted(o) /\ o \notin refused
    BY DEF Left, Op, Trusted
<1>2. OnTheWay(pc[o], LinkOf(o), rest[o], form[o], put[o])
    BY <1>1 DEF InvWay
<1> QED BY <1>2 DEF Left, OnTheWay

LEMMA NextOp == Inv /\ InvOp /\ [Next]_vars => InvOp'
<1> SUFFICES ASSUME Inv, InvOp, [Next]_vars PROVE InvOp'
    OBVIOUS
<1> USE DEF Inv, CallInv
<1>1. ASSUME NEW q \in Reqs, NEW x, pc' = [pc EXCEPT ![q] = x], form' = form,
             /\ x \in {"cwd", "mkd", "cwdAgain", "stor", "transfer", "root"} => Op(q) = "store"
             /\ x = "retr" => Op(q) = "load"
             /\ x = "dele" => Op(q) = "delete"
      PROVE  InvOp'
    BY <1>1 DEF InvOp, Op
<1>2. ASSUME NEW q \in Reqs, Call(q)
      PROVE  InvOp'
    <2>1. pc[q] = "idle" /\ pc' = [pc EXCEPT ![q] = "start"] /\ \A o \in Reqs \ {q} : form'[o] = form[o]
        BY <1>2 DEF Call, Goto
    <2> QED BY <2>1 DEF InvOp, Op
<1>3. ASSUME NEW q \in Reqs, GetInstance(q) \/ ConnectFails(q) \/ Return(q)
      PROVE  InvOp'
    <2>1. form' = form /\ \E x \in {"create", "enter", "wait", "failed", "done"} : pc' = [pc EXCEPT ![q] = x]
        BY <1>3 DEF GetInstance, FindPool, CreatePool, EnterPool, ConnectFails, MakeFails, Return, GiveBack,
            Goto, callVars
    <2> QED BY <1>1, <2>1
<1>4. ASSUME NEW q \in Reqs, TakeLink(q) \/ Connect(q)
      PROVE  InvOp'
    <2>1. form' = form /\ pc[q] = "wait" /\ pc' = [pc EXCEPT ![q] = First(form[q])]
        BY <1>4 DEF TakeLink, TakeIdle, Connect, MakeClient, MayMake, Ready, Goto
    <2>2. form[q].op \in {"store", "load", "delete"}
        BY <2>1 DEF Form
    <2>3. /\ First(form[q]) \in {"cwd", "mkd", "cwdAgain", "stor", "transfer", "root"} => Op(q) = "store"
          /\ First(form[q]) = "retr" => Op(q) = "load"
          /\ First(form[q]) = "dele" => Op(q) = "delete"
        BY <2>2 DEF First, EnterDirs, Op
    <2> QED BY <1>1, <2>1, <2>3
<1>5. ASSUME NEW q \in Reqs, Talks(q)
      PROVE  InvOp'
    <2>1. form' = form
        BY <1>5 DEF Talks, Cwd, Mkd, Stor, Transfer, CwdRoot, Retr, Dele, Broken, callVars
    <2>2. CASE Cwd(q) \/ Mkd(q) \/ Stor(q) \/ Transfer(q)
        <3>1. pc[q] \in {"cwd", "mkd", "cwdAgain", "stor", "transfer"}
            BY <2>2 DEF Cwd, Mkd, Stor, Transfer, Alive
        <3>2. \E x \in {"cwd", "mkd", "cwdAgain", "stor", "transfer", "root", "giveup"} :
                  pc' = [pc EXCEPT ![q] = x]
            BY <2>2 DEF Cwd, Mkd, Stor, Transfer, NoPort, BadPort, Refuse, StorAccepted, Interrupted, Throw,
                EnterDirs, Goto
        <3>3. Op(q) = "store"
            BY <3>1 DEF InvOp
        <3> QED BY <1>1, <2>1, <3>2, <3>3
    <2>3. CASE CwdRoot(q) \/ Retr(q) \/ Dele(q) \/ Broken(q)
        <3>1. \E x \in {"return", "giveup"} : pc' = [pc EXCEPT ![q] = x]
            BY <2>3 DEF CwdRoot, Retr, Dele, Broken, NoPort, BadPort, Refuse, RetrAccepted, NoFile,
                Interrupted, Throw, Goto
        <3> QED BY <1>1, <2>1, <3>1
    <2> QED BY <1>5, <2>2, <2>3 DEF Talks
<1>6. CASE EvictLink \/ Drop \/ UNCHANGED vars
    <2>1. pc' = pc /\ form' = form
        BY <1>6 DEF EvictLink, Evict, Drop, vars, poolVars, callVars
    <2> QED BY <2>1 DEF InvOp, Op
<1> QED BY <1>2, <1>3, <1>4, <1>5, <1>6 DEF Next, Step, Talks

LEMMA NextWay == Inv /\ DataInv /\ InvOp /\ InvWay /\ [Next]_vars => InvWay'
<1> SUFFICES ASSUME Inv, DataInv, InvOp, InvWay, [Next]_vars,
                    NEW o \in Reqs, pc'[o] \in Talking, Op(o)' = "store", Trusted(o)', o \notin refused'
             PROVE  OnTheWay(pc[o], LinkOf(o), rest[o], form[o], put[o])'
    BY DEF InvWay
<1>1. CASE Call(o) \/ GetInstance(o) \/ ConnectFails(o) \/ Return(o)
    <2>1. \E x \in {"start", "create", "enter", "wait", "failed", "done"} : pc' = [pc EXCEPT ![o] = x]
        BY <1>1 DEF Call, GetInstance, FindPool, CreatePool, EnterPool, ConnectFails, MakeFails, Return,
            GiveBack, Goto
    <2> QED BY <2>1 DEF Inv, CallInv, Talking
<1>2. CASE TakeLink(o) \/ Connect(o)
    <2>1. form' = form
        BY <1>2 DEF TakeLink, Connect, Ready
    <2> QED BY <1>2, <2>1, StartWay DEF Op
<1>3. CASE Talks(o)
    BY <1>3, CommandFacts, OwnWay DEF Op
<1>4. ASSUME NEW q \in Reqs \ {o}, Call(q) \/ Step(q)
      PROVE  OnTheWay(pc[o], LinkOf(o), rest[o], form[o], put[o])'
    <2>1. pc[o] \in Talking
        BY <1>4, StepCall DEF Inv, CallInv
    <2>2. Left(o)
        BY <1>4, <2>1, LeftByPool, LeftByTalk, LeftByReturn DEF Step, Talks
    <2> QED BY <2>1, <2>2, LeftWay
<1>5. CASE EvictLink \/ Drop
    <2>1. pc' = pc
        BY <1>5 DEF EvictLink, Evict, Drop, poolVars
    <2> QED BY <1>5, <2>1, LeftByOther, LeftWay
<1>6. CASE UNCHANGED vars
    <2>1. UNCHANGED <<pc, client, form, rest, put, link, hurt, refused, tree>>
        BY <1>6 DEF vars, poolVars, callVars, serverVars
    <2> QED BY <2>1 DEF InvWay, OnTheWay, Op, Trusted, LinkOf
<1> QED BY <1>1, <1>2, <1>3, <1>4, <1>5, <1>6 DEF Next, Step, Talks

\* The last command of a call that was refused nothing, on a connection that
\* can be trusted.
LEMMA LastCommand ==
    ASSUME Inv, DataInv, InvOp, InvWay, NEW q \in Reqs, Talks(q), pc'[q] = "return",
           Trusted(q), q \notin refused'
    PROVE  /\ Op(q) = "store" => put[q] = form[q].dir
           /\ Op(q) = "load"  => (got'[q] = Null => file[form[q].dir] = Null)
<1> DEFINE l == LinkOf(q)
<1>1. /\ pc[q] \in Talking /\ l \in Behind
      /\ Fits(pc[q], l, client[q] \in hurt) /\ refused \subseteq refused'
    BY CommandFacts
<1>2. l.unread = <<>> /\ l.login
    BY <1>1 DEF Trusted, Fits
<1>3. PasvRead(q) = "pasv"
    <2>1. PasvReply(q) = "pasv" /\ "pasv" \in Reply
        BY <1>2 DEF PasvReply, Reply
    <2> QED BY <1>1, <1>2, <2>1, Read DEF PasvRead
<1>4. \A x : pc' = [pc EXCEPT ![q] = x] => x = "return"
    BY DEF Inv, CallInv
<1>5. CwdRoot(q) \/ Retr(q) \/ Dele(q)
    BY <1>4 DEF Talks, Cwd, Mkd, Stor, Transfer, Broken, NoPort, BadPort, Refuse, StorAccepted, Interrupted,
        Throw, EnterDirs, Goto
<1>6. CASE CwdRoot(q)
    <2>1. pc[q] = "root" /\ Op(q) = "store"
        BY <1>6 DEF CwdRoot, Alive, InvOp
    <2>2. put[q] = form[q].dir
        BY <1>1, <2>1 DEF InvWay, OnTheWay
    <2> QED BY <2>1, <2>2
<1>7. CASE Retr(q)
    <2>1. Op(q) = "load"
        BY <1>7 DEF Retr, Alive, InvOp
    <2>2. ~ NoPort(q, "return") /\ ~ BadPort(q) /\ ~ Refuse(q, "return") /\ ~ Interrupted(q)
        BY <1>3, <1>4 DEF NoPort, BadPort, Refuse, Interrupted, Throw, Goto
    <2>3. file[form[q].dir] = Null \/ got' = [got EXCEPT ![q] = file[form[q].dir]]
        BY <1>7, <2>2 DEF Retr, RetrAccepted
    <2> QED BY <2>1, <2>3 DEF DataInv
<1>8. CASE Dele(q)
    BY <1>8 DEF Dele, Alive, InvOp
<1> QED BY <1>5, <1>6, <1>7, <1>8

(***************************************************************************)
(* A store that returns its path has written the file there, and a load    *)
(* that returns null has found none, when the login was accepted, no call  *)
(* had thrown on that connection before and the server refused this call   *)
(* nothing: the request reads the replies to its own commands, however     *)
(* other requests create the same directories and connections come and go. *)
(***************************************************************************)
THEOREM MeaningKept == Spec => CallsMeanWhatTheySay
<1> DEFINE Meant == \A q \in Reqs :
               (pc[q] \in Talking /\ pc'[q] = "return" /\ Trusted(q) /\ q \notin refused') =>
                   /\ Op(q) = "store" => put[q] = form[q].dir
                   /\ Op(q) = "load"  => (got'[q] = Null => file[form[q].dir] = Null)
           AllInv == Inv /\ DataInv /\ InvOp /\ InvWay
<1>1. Init => DataInv /\ InvOp /\ InvWay
    BY InitData DEF Init, PoolInit, InvOp, InvWay, Talking
<1>2. Spec => []AllInv
    <2>1. Init => DataInv /\ InvOp /\ InvWay
        BY <1>1
    <2>2. Inv /\ DataInv /\ InvOp /\ InvWay /\ [Next]_vars => DataInv' /\ InvOp' /\ InvWay'
        BY NextData, NextOp, NextWay
    <2> QED BY <2>1, <2>2, LinkInduction, PTL DEF Spec
<1>3. AllInv /\ [Next]_vars => [Meant]_vars
    <2> SUFFICES ASSUME Inv, DataInv, InvOp, InvWay, Next, NEW q \in Reqs,
                        pc[q] \in Talking, pc'[q] = "return", Trusted(q), q \notin refused'
                 PROVE  /\ Op(q) = "store" => put[q] = form[q].dir
                        /\ Op(q) = "load"  => (got'[q] = Null => file[form[q].dir] = Null)
        OBVIOUS
    <2>1. pc[q] # "return"
        BY DEF Talking
    <2>2. ~ EvictLink /\ ~ Drop
        BY <2>1 DEF EvictLink, Evict, Drop, poolVars
    <2>3. \E o \in Reqs : Call(o) \/ Step(o)
        BY <2>2 DEF Next
    <2>4. Call(q) \/ Step(q)
        BY <2>1, <2>3, StepCall DEF Inv, CallInv
    <2>5. Talks(q)
        BY <2>4 DEF Step, Talks, Call, GetInstance, FindPool, CreatePool, EnterPool, TakeLink, TakeIdle,
            Connect, MakeClient, MayMake, ConnectFails, MakeFails, Return, Talking
    <2> QED BY <2>5, LastCommand
<1> QED BY <1>2, <1>3, PTL DEF Spec, CallsMeanWhatTheySay

=============================================================================
