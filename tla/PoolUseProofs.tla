---------------------------- MODULE PoolUseProofs ----------------------------
(***************************************************************************)
(* Proofs about PoolUse: whatever number of requests, pools and clients    *)
(* there is, no client is shared, and the limit and the count hold as long *)
(* as there is one pool.                                                   *)
(***************************************************************************)
EXTENDS PoolUse, TLAPS, FiniteSetTheorems, SequenceTheorems

-----------------------------------------------------------------------------
(* The lists of idle clients.                                                *)

LEMMA TakeFirst ==
    ASSUME NEW S, NEW s \in Seq(S), s # <<>>
    PROVE  /\ Tail(s) \in Seq(S)
           /\ Len(s) \in Nat \ {0}
           /\ Len(Tail(s)) = Len(s) - 1
           /\ Head(s) = s[1]
           /\ \A i \in 1..Len(Tail(s)) : i + 1 \in 2..Len(s) /\ Tail(s)[i] = s[i + 1]
<1>1. Len(s) \in Nat \ {0}
    BY EmptySeq
<1>2. /\ Tail(s) \in Seq(S)
      /\ Len(Tail(s)) = Len(s) - 1
      /\ \A i \in 1..Len(Tail(s)) : Tail(s)[i] = s[i + 1]
    BY HeadTailProperties
<1>3. Head(s) = s[1]
    OBVIOUS
<1> QED BY <1>1, <1>2, <1>3

LEMMA PutFirst ==
    ASSUME NEW S, NEW s \in Seq(S), NEW c \in S
    PROVE  /\ <<c>> \o s \in Seq(S)
           /\ Len(s) \in Nat
           /\ Len(<<c>> \o s) = Len(s) + 1
           /\ \A i \in 1..(Len(s) + 1) :
                  /\ i = 1 => (<<c>> \o s)[i] = c
                  /\ i # 1 => i - 1 \in 1..Len(s) /\ (<<c>> \o s)[i] = s[i - 1]
<1>1. <<c>> \in Seq(S) /\ Len(<<c>>) = 1 /\ <<c>>[1] = c
    OBVIOUS
<1>2. Len(s) \in Nat
    BY LenProperties
<1>3. /\ <<c>> \o s \in Seq(S)
      /\ Len(<<c>> \o s) = 1 + Len(s)
      /\ \A i \in 1..(1 + Len(s)) : (<<c>> \o s)[i] = IF i <= 1 THEN <<c>>[i] ELSE s[i - 1]
    BY <1>1, ConcatProperties
<1> HIDE <1>1
<1>4. ASSUME NEW i \in 1..(Len(s) + 1)
      PROVE  /\ i = 1 => (<<c>> \o s)[i] = c
             /\ i # 1 => i - 1 \in 1..Len(s) /\ (<<c>> \o s)[i] = s[i - 1]
    <2>1. i \in 1..(1 + Len(s)) /\ (i <= 1 <=> i = 1)
        BY <1>2
    <2> QED BY <1>1, <1>2, <1>3, <2>1
<1> QED BY <1>2, <1>3, <1>4

LEMMA LeaveOut ==
    ASSUME NEW S, NEW s \in Seq(S), NEW k \in 1..Len(s)
    PROVE  LET t == SubSeq(s, 1, k - 1) \o SubSeq(s, k + 1, Len(s)) IN
           /\ t \in Seq(S)
           /\ Len(s) \in Nat
           /\ Len(t) = Len(s) - 1
           /\ \A i \in 1..Len(t) :
                  /\ i < k => i \in 1..Len(s) /\ t[i] = s[i]
                  /\ i >= k => i + 1 \in 1..Len(s) /\ t[i] = s[i + 1]
<1> DEFINE a == SubSeq(s, 1, k - 1)
           b == SubSeq(s, k + 1, Len(s))
<1>1. Len(s) \in Nat /\ \A i \in 1..Len(s) : s[i] \in S
    BY LenProperties, ElementOfSeq
<1>2. /\ a \in Seq(S)
      /\ Len(a) = k - 1
      /\ \A i \in 1..(k - 1) : a[i] = s[i]
    <2>1. \A i \in 1..(k - 1) : s[i] \in S
        BY <1>1
    <2>2. /\ a \in Seq(S)
          /\ Len(a) = IF 1 <= k - 1 THEN k - 1 - 1 + 1 ELSE 0
          /\ \A i \in 1..(k - 1 - 1 + 1) : a[i] = s[1 + i - 1]
        BY <1>1, <2>1, SubSeqProperties
    <2> HIDE DEF a
    <2> QED BY <2>2, <1>1
<1>3. /\ b \in Seq(S)
      /\ Len(b) = Len(s) - k
      /\ \A i \in 1..(Len(s) - k) : b[i] = s[k + i]
    <2>1. \A i \in (k + 1)..Len(s) : s[i] \in S
        BY <1>1
    <2>2. /\ b \in Seq(S)
          /\ Len(b) = IF k + 1 <= Len(s) THEN Len(s) - (k + 1) + 1 ELSE 0
          /\ \A i \in 1..(Len(s) - (k + 1) + 1) : b[i] = s[k + 1 + i - 1]
        BY <1>1, <2>1, SubSeqProperties
    <2> HIDE DEF b
    <2> QED BY <2>2, <1>1
<1> HIDE DEF a, b
<1>4. /\ a \o b \in Seq(S)
      /\ Len(a \o b) = Len(a) + Len(b)
      /\ \A i \in 1..(Len(a) + Len(b)) : (a \o b)[i] = IF i <= Len(a) THEN a[i] ELSE b[i - Len(a)]
    BY <1>2, <1>3, ConcatProperties
<1>5. Len(a) + Len(b) = Len(s) - 1
    BY <1>1, <1>2, <1>3
<1>6. ASSUME NEW i \in 1..(Len(s) - 1)
      PROVE  /\ i < k => i \in 1..Len(s) /\ (a \o b)[i] = s[i]
             /\ i >= k => i + 1 \in 1..Len(s) /\ (a \o b)[i] = s[i + 1]
    <2>1. CASE i < k
        BY <1>1, <1>2, <1>4, <1>5, <2>1
    <2>2. CASE i >= k
        <3>1. i - (k - 1) \in 1..(Len(s) - k) /\ k + (i - (k - 1)) = i + 1
            BY <1>1, <2>2
        <3>2. (a \o b)[i] = b[i - (k - 1)]
            BY <1>1, <1>2, <1>4, <1>5, <2>2
        <3> QED BY <1>1, <1>3, <2>2, <3>1, <3>2
    <2> QED BY <1>1, <2>1, <2>2
<1> QED BY <1>1, <1>4, <1>5, <1>6 DEF a, b

-----------------------------------------------------------------------------
(* The inductive invariant.                                                  *)

PcSet == {"idle", "start", "create", "enter", "wait", "failed", "use", "return", "done"}

InvTypes ==
    /\ made \subseteq Pools /\ IsFiniteSet(made)
    /\ pool \in made \cup {Null}
    /\ active \in [Pools -> Int]
    /\ idle \in [Pools -> Seq(Clients)]
    /\ pc \in [Reqs -> PcSet]
    /\ at \in [Reqs -> made \cup {Null}]
    /\ client \in [Reqs -> Clients \cup {Null}]

\* Past getInstance the field is set, and stays so; a request waits at a pool;
\* it holds a client while it uses it.
InvPc ==
    /\ pool = Null => made = {}
    /\ \A q \in Reqs :
        /\ pc[q] \in {"enter", "wait", "use", "return"} => pool # Null
        /\ pc[q] = "wait" => at[q] # Null
        /\ client[q] # Null <=> pc[q] \in {"use", "return"}

\* NoClientShared, in terms of requests and places on the lists.
InvHeld == \A q, r \in Reqs : (q # r /\ client[q] # Null) => client[q] # client[r]
InvIdle == \A q \in Reqs, p \in Pools : \A i \in 1..Len(idle[p]) : client[q] # idle[p][i]
InvOnce ==
    \A p, s \in Pools : \A i \in 1..Len(idle[p]), j \in 1..Len(idle[s]) :
        idle[p][i] = idle[s][j] => (p = s /\ i = j)

SharedInv == InvTypes /\ InvPc /\ InvHeld /\ InvIdle /\ InvOnce

LEMMA InitShared == PoolInit => SharedInv
<1> SUFFICES ASSUME PoolInit PROVE SharedInv
    OBVIOUS
<1> USE DEF PoolInit
<1>1. InvTypes
    BY FS_EmptySet DEF InvTypes, PcSet
<1>2. InvPc /\ InvHeld
    BY DEF InvPc, InvHeld
<1>3. \A p \in Pools : Len(idle[p]) = 0
    OBVIOUS
<1>4. InvIdle /\ InvOnce
    BY <1>3 DEF InvIdle, InvOnce
<1> QED BY <1>1, <1>2, <1>4 DEF SharedInv

\* The steps that neither hand out a client nor take one back.
Quiet(q) == Call(q) \/ FindPool(q) \/ CreatePool(q) \/ EnterPool(q) \/ MakeFails(q) \/ Use(q)

LEMMA NextCases ==
    ASSUME Next
    PROVE  \/ \E q \in Reqs : Quiet(q)
           \/ \E q \in Reqs : TakeIdle(q, "use")
           \/ \E q \in Reqs, c \in Clients : MakeClient(q, c, "use")
           \/ \E q \in Reqs : Return(q)
           \/ \E p \in Pools, i \in 1..MaxIdle : Evict(p, i)
BY DEF Next, Step, Borrow, Quiet

LEMMA QuietShared ==
    ASSUME SharedInv, NEW q \in Reqs, Quiet(q)
    PROVE  SharedInv'
<1> USE ObjectPoolAssumption DEF ObjectPoolAssumption, SharedInv
<1>1. UNCHANGED <<idle, active, client>>
    BY DEF Quiet, Call, FindPool, CreatePool, EnterPool, MakeFails, Use
<1>2. InvHeld' /\ InvIdle' /\ InvOnce'
    BY <1>1 DEF InvHeld, InvIdle, InvOnce
<1>3. CASE CreatePool(q)
    <2>1. PICK p \in Pools \ made : pool' = p /\ made' = made \cup {p}
        BY <1>3 DEF CreatePool
    <2>2. IsFiniteSet(made')
        BY <2>1, FS_AddElement DEF InvTypes
    <2>3. pc' = [pc EXCEPT ![q] = "enter"] /\ pc[q] = "create" /\ at' = at
        BY <1>3 DEF CreatePool, Goto
    <2>4. InvTypes'
        BY <1>1, <2>1, <2>2, <2>3 DEF InvTypes, PcSet
    <2>5. InvPc'
        BY <1>1, <2>1, <2>3 DEF InvTypes, InvPc
    <2> QED BY <1>2, <2>4, <2>5
<1>4. CASE ~ CreatePool(q)
    <2>1. UNCHANGED <<pool, made>>
        BY <1>4 DEF Quiet, Call, FindPool, EnterPool, MakeFails, Use
    <2>2. InvTypes'
        BY <1>1, <1>4, <2>1
        DEF InvTypes, InvPc, PcSet, Quiet, Call, FindPool, EnterPool, MakeFails, MayMake, Use, Goto
    <2>3. InvPc'
        BY <1>1, <1>4, <2>1
        DEF InvTypes, InvPc, Quiet, Call, FindPool, EnterPool, MakeFails, MayMake, Use, Goto
    <2> QED BY <1>2, <2>2, <2>3
<1> QED BY <1>3, <1>4

\* Taking a client from a list.
LEMMA TakeShared ==
    ASSUME SharedInv, NEW q \in Reqs, TakeIdle(q, "use")
    PROVE  SharedInv'
<1> USE DEF SharedInv
<1> DEFINE p == at[q]
           s == idle[p]
<1>1. /\ pc[q] = "wait" /\ s # <<>>
      /\ client' = [client EXCEPT ![q] = Head(s)]
      /\ active' = [active EXCEPT ![p] = active[p] + 1]
      /\ idle' = [idle EXCEPT ![p] = Tail(s)]
      /\ pc' = [pc EXCEPT ![q] = "use"]
      /\ UNCHANGED <<pool, made, at>>
    BY DEF TakeIdle, Borrowed, Goto
<1>2. p \in Pools /\ s \in Seq(Clients) /\ client[q] = Null
    BY <1>1 DEF InvTypes, InvPc
<1>3. /\ Tail(s) \in Seq(Clients)
      /\ Len(s) \in Nat \ {0}
      /\ Len(Tail(s)) = Len(s) - 1
      /\ Head(s) = s[1]
      /\ \A i \in 1..Len(Tail(s)) : i + 1 \in 2..Len(s) /\ Tail(s)[i] = s[i + 1]
    BY <1>1, <1>2, TakeFirst
<1>4. s[1] \in Clients /\ 1 \in 1..Len(s)
    BY <1>2, <1>3, ElementOfSeq
<1> HIDE DEF s
<1>5. InvTypes'
    BY <1>1, <1>2, <1>3, <1>4 DEF InvTypes, PcSet
<1>6. InvPc'
    BY <1>1, <1>2, <1>3, <1>4, ObjectPoolAssumption DEF ObjectPoolAssumption, InvTypes, InvPc
<1>7. InvHeld'
    <2>1. \A r \in Reqs : client[r] # s[1]
        BY <1>2, <1>4 DEF InvIdle, s
    <2> QED BY <1>1, <1>3, <2>1 DEF InvHeld, InvTypes
\* Every place of the new lists was a place of the old ones, other than the
\* first one of s.
<1>8. \A t \in Pools : \A i \in 1..Len(idle'[t]) :
          \E k \in 1..Len(idle[t]) : /\ k = IF t = p THEN i + 1 ELSE i
                                     /\ idle'[t][i] = idle[t][k]
    <2> SUFFICES ASSUME NEW t \in Pools, NEW i \in 1..Len(idle'[t])
                 PROVE  \E k \in 1..Len(idle[t]) : /\ k = IF t = p THEN i + 1 ELSE i
                                                   /\ idle'[t][i] = idle[t][k]
        OBVIOUS
    <2>1. CASE t = p
        BY <1>1, <1>2, <1>3, <2>1 DEF s, InvTypes
    <2>2. CASE t # p
        BY <1>1, <1>2, <2>2 DEF InvTypes
    <2> QED BY <2>1, <2>2
<1>9. InvIdle'
    <2> SUFFICES ASSUME NEW r \in Reqs, NEW t \in Pools, NEW i \in 1..Len(idle'[t])
                 PROVE  client'[r] # idle'[t][i]
        BY DEF InvIdle
    <2>1. PICK k \in 1..Len(idle[t]) : /\ k = IF t = p THEN i + 1 ELSE i
                                       /\ idle'[t][i] = idle[t][k]
        BY <1>8
    <2>2. CASE r = q
        <3>1. idle[t][k] = idle[p][1] => t = p /\ k = 1
            BY <1>2, <1>4 DEF InvOnce, s
        <3>2. ~ (t = p /\ k = 1)
            BY <2>1
        <3>3. client'[r] = idle[p][1]
            BY <1>1, <1>3, <2>2 DEF InvTypes, s
        <3> QED BY <2>1, <3>1, <3>2, <3>3
    <2>3. CASE r # q
        BY <1>1, <2>1, <2>3 DEF InvIdle, InvTypes
    <2> QED BY <2>2, <2>3
<1>10. InvOnce'
    <2> SUFFICES ASSUME NEW t \in Pools, NEW u \in Pools,
                        NEW i \in 1..Len(idle'[t]), NEW j \in 1..Len(idle'[u]),
                        idle'[t][i] = idle'[u][j]
                 PROVE  t = u /\ i = j
        BY DEF InvOnce
    <2>1. PICK k \in 1..Len(idle[t]) : /\ k = IF t = p THEN i + 1 ELSE i
                                       /\ idle'[t][i] = idle[t][k]
        BY <1>8
    <2>2. PICK l \in 1..Len(idle[u]) : /\ l = IF u = p THEN j + 1 ELSE j
                                       /\ idle'[u][j] = idle[u][l]
        BY <1>8
    <2>3. t = u /\ k = l
        <3>1. idle[t][k] = idle[u][l]
            BY <2>1, <2>2
        <3> QED BY <3>1 DEF InvOnce
    <2> QED BY <2>1, <2>2, <2>3
<1> QED BY <1>5, <1>6, <1>7, <1>9, <1>10

\* A new client is in nobody's hands and on no list.
LEMMA MakeShared ==
    ASSUME SharedInv, NEW q \in Reqs, NEW c \in Clients, MakeClient(q, c, "use")
    PROVE  SharedInv'
<1> USE DEF SharedInv
<1>1. /\ pc[q] = "wait" /\ c \notin InUse
      /\ client' = [client EXCEPT ![q] = c]
      /\ active' = [active EXCEPT ![at[q]] = active[at[q]] + 1]
      /\ pc' = [pc EXCEPT ![q] = "use"]
      /\ UNCHANGED <<pool, made, at, idle>>
    BY DEF MakeClient, MayMake, Borrowed, Goto
<1>2. c # Null /\ at[q] \in Pools
    BY <1>1, ObjectPoolAssumption DEF ObjectPoolAssumption, InvTypes, InvPc
<1>3. \A r \in Reqs : client[r] # c
    BY <1>1, <1>2 DEF InUse, Held
<1>4. \A p \in Pools : \A i \in 1..Len(idle[p]) : idle[p][i] # c
    BY <1>1 DEF InUse, IdleIn
<1>5. InvTypes'
    BY <1>1, <1>2 DEF InvTypes, PcSet
<1>6. InvPc'
    BY <1>1, <1>2 DEF InvPc, InvTypes
<1>7. InvHeld'
    BY <1>1, <1>3 DEF InvHeld, InvTypes
<1>8. InvIdle' /\ InvOnce'
    BY <1>1, <1>4 DEF InvIdle, InvOnce, InvTypes
<1> QED BY <1>5, <1>6, <1>7, <1>8

\* Giving a client back: it goes to the front of one list or is destroyed.
LEMMA ReturnShared ==
    ASSUME SharedInv, NEW q \in Reqs, Return(q)
    PROVE  SharedInv'
<1> USE DEF SharedInv
<1> DEFINE c == client[q]
           s == idle[pool]
<1>1. PICK end \in {"done", "failed"} :
          /\ pc[q] = "return"
          /\ idle' = IF Keeps(pool) THEN [idle EXCEPT ![pool] = <<c>> \o s] ELSE idle
          /\ active' = [active EXCEPT ![pool] = active[pool] - 1]
          /\ client' = [client EXCEPT ![q] = Null]
          /\ pc' = [pc EXCEPT ![q] = end]
          /\ UNCHANGED <<pool, made, at>>
    BY DEF Return, GiveBack, Goto
<1>2. pool \in Pools /\ s \in Seq(Clients) /\ c \in Clients /\ pool # Null /\ Null \notin Clients
    BY <1>1, ObjectPoolAssumption DEF ObjectPoolAssumption, InvTypes, InvPc
<1>3. /\ <<c>> \o s \in Seq(Clients)
      /\ Len(s) \in Nat
      /\ Len(<<c>> \o s) = Len(s) + 1
      /\ \A i \in 1..(Len(s) + 1) :
             /\ i = 1 => (<<c>> \o s)[i] = c
             /\ i # 1 => i - 1 \in 1..Len(s) /\ (<<c>> \o s)[i] = s[i - 1]
    BY <1>2, PutFirst
<1> DEFINE new == <<c>> \o s
<1> HIDE DEF new
<1>4. InvTypes'
    BY <1>1, <1>2, <1>3 DEF InvTypes, PcSet, new
<1>5. InvPc'
    BY <1>1, <1>2 DEF InvPc, InvTypes
<1>6. InvHeld'
    BY <1>1 DEF InvHeld, InvTypes
\* A place of the new lists is the first of s, with c, or was a place before.
<1>7. ASSUME NEW t \in Pools, NEW i \in 1..Len(idle'[t])
      PROVE  \/ t = pool /\ i = 1 /\ Keeps(pool) /\ idle'[t][i] = c
             \/ \E k \in 1..Len(idle[t]) :
                    /\ k = IF t = pool /\ Keeps(pool) THEN i - 1 ELSE i
                    /\ idle'[t][i] = idle[t][k]
    <2>1. CASE t = pool /\ Keeps(pool)
        <3>1. idle'[t] = new
            BY <1>1, <1>2, <2>1 DEF InvTypes, new
        <3>2. i \in 1..(Len(s) + 1)
            BY <1>3, <3>1 DEF new
        <3> QED BY <1>3, <2>1, <3>1, <3>2 DEF new
    <2>2. CASE ~ (t = pool /\ Keeps(pool))
        <3>1. idle'[t] = idle[t]
            BY <1>1, <1>2, <2>2 DEF InvTypes
        <3> QED BY <2>2, <3>1
    <2> QED BY <2>1, <2>2
<1>8. InvIdle'
    <2> SUFFICES ASSUME NEW r \in Reqs, NEW t \in Pools, NEW i \in 1..Len(idle'[t])
                 PROVE  client'[r] # idle'[t][i]
        BY DEF InvIdle
    <2>1. idle'[t][i] \in Clients
        BY <1>4, ElementOfSeq DEF InvTypes
    <2>2. CASE r = q
        BY <1>1, <1>2, <2>1, <2>2 DEF InvTypes
    <2>3. CASE r # q
        <3>1. client'[r] = client[r]
            BY <1>1, <2>3 DEF InvTypes
        <3>2. CASE idle'[t][i] = c
            BY <1>2, <2>3, <3>1, <3>2 DEF InvHeld
        <3>3. CASE \E k \in 1..Len(idle[t]) : idle'[t][i] = idle[t][k]
            BY <3>1, <3>3 DEF InvIdle
        <3> QED BY <1>7, <3>2, <3>3
    <2> QED BY <2>2, <2>3
<1>9. InvOnce'
    <2> SUFFICES ASSUME NEW t \in Pools, NEW u \in Pools,
                        NEW i \in 1..Len(idle'[t]), NEW j \in 1..Len(idle'[u]),
                        idle'[t][i] = idle'[u][j]
                 PROVE  t = u /\ i = j
        BY DEF InvOnce
    <2> DEFINE First(p, x) == p = pool /\ x = 1 /\ Keeps(pool) /\ idle'[p][x] = c
               Old(p, x) == \E k \in 1..Len(idle[p]) :
                                /\ k = IF p = pool /\ Keeps(pool) THEN x - 1 ELSE x
                                /\ idle'[p][x] = idle[p][k]
    <2>1. (First(t, i) \/ Old(t, i)) /\ (First(u, j) \/ Old(u, j))
        BY <1>7
    <2>2. \A p \in Pools, x \in Nat : Old(p, x) => idle'[p][x] # c
        BY <1>2 DEF InvIdle
    <2>3. CASE First(t, i)
        BY <2>1, <2>2, <2>3
    <2>4. CASE First(u, j)
        BY <2>1, <2>2, <2>4
    <2>5. CASE Old(t, i) /\ Old(u, j)
        <3>1. PICK k \in 1..Len(idle[t]) : /\ k = IF t = pool /\ Keeps(pool) THEN i - 1 ELSE i
                                           /\ idle'[t][i] = idle[t][k]
            BY <2>5
        <3>2. PICK l \in 1..Len(idle[u]) : /\ l = IF u = pool /\ Keeps(pool) THEN j - 1 ELSE j
                                           /\ idle'[u][j] = idle[u][l]
            BY <2>5
        <3>3. idle[t][k] = idle[u][l]
            BY <3>1, <3>2
        <3>4. t = u /\ k = l
            BY <3>3 DEF InvOnce
        <3> QED BY <3>1, <3>2, <3>4
    <2> QED BY <2>1, <2>3, <2>4, <2>5
<1> QED BY <1>4, <1>5, <1>6, <1>8, <1>9

\* The evictor takes a client off a list.
LEMMA EvictShared ==
    ASSUME SharedInv, NEW p \in Pools, NEW n \in 1..MaxIdle, Evict(p, n)
    PROVE  SharedInv'
<1> USE DEF SharedInv
<1> DEFINE s == idle[p]
           new == SubSeq(s, 1, n - 1) \o SubSeq(s, n + 1, Len(s))
<1>1. /\ n \in 1..Len(s)
      /\ idle' = [idle EXCEPT ![p] = new]
      /\ UNCHANGED <<pool, made, active, pc, at, client>>
    BY DEF Evict
<1>2. s \in Seq(Clients)
    BY DEF InvTypes
<1>3. /\ new \in Seq(Clients)
      /\ Len(s) \in Nat
      /\ Len(new) = Len(s) - 1
      /\ \A i \in 1..Len(new) :
             /\ i < n => i \in 1..Len(s) /\ new[i] = s[i]
             /\ i >= n => i + 1 \in 1..Len(s) /\ new[i] = s[i + 1]
    BY <1>1, <1>2, LeaveOut
<1> HIDE DEF new
<1>4. InvTypes' /\ InvPc' /\ InvHeld'
    BY <1>1, <1>3 DEF InvTypes, InvPc, InvHeld
<1>5. ASSUME NEW t \in Pools, NEW i \in 1..Len(idle'[t])
      PROVE  \E k \in 1..Len(idle[t]) : /\ k = IF t = p /\ i >= n THEN i + 1 ELSE i
                                        /\ idle'[t][i] = idle[t][k]
    <2>1. CASE t = p
        <3>1. idle'[t] = new
            BY <1>1, <2>1 DEF InvTypes
        <3>2. i < n \/ i >= n
            OBVIOUS
        <3> QED BY <1>3, <2>1, <3>1, <3>2
    <2>2. CASE t # p
        BY <1>1, <2>2 DEF InvTypes
    <2> QED BY <2>1, <2>2
<1>6. InvIdle'
    <2> SUFFICES ASSUME NEW r \in Reqs, NEW t \in Pools, NEW i \in 1..Len(idle'[t])
                 PROVE  client'[r] # idle'[t][i]
        BY DEF InvIdle
    <2> QED BY <1>1, <1>5 DEF InvIdle
<1>7. InvOnce'
    <2> SUFFICES ASSUME NEW t \in Pools, NEW u \in Pools,
                        NEW i \in 1..Len(idle'[t]), NEW j \in 1..Len(idle'[u]),
                        idle'[t][i] = idle'[u][j]
                 PROVE  t = u /\ i = j
        BY DEF InvOnce
    <2>1. PICK k \in 1..Len(idle[t]) : /\ k = IF t = p /\ i >= n THEN i + 1 ELSE i
                                       /\ idle'[t][i] = idle[t][k]
        BY <1>5
    <2>2. PICK l \in 1..Len(idle[u]) : /\ l = IF u = p /\ j >= n THEN j + 1 ELSE j
                                       /\ idle'[u][j] = idle[u][l]
        BY <1>5
    <2>3. t = u /\ k = l
        <3>1. idle[t][k] = idle[u][l]
            BY <2>1, <2>2
        <3> QED BY <3>1 DEF InvOnce
    <2>4. n \in Int /\ i \in Int /\ j \in Int
        OBVIOUS
    <2> QED BY <2>1, <2>2, <2>3, <2>4
<1> QED BY <1>4, <1>6, <1>7

LEMMA SharedInduction == Spec => []SharedInv
<1>1. PoolInit => SharedInv
    BY InitShared
<1>2. SharedInv /\ [Next]_poolVars => SharedInv'
    <2> SUFFICES ASSUME SharedInv, [Next]_poolVars PROVE SharedInv'
        OBVIOUS
    <2>1. CASE Next
        BY <2>1, NextCases, QuietShared, TakeShared, MakeShared, ReturnShared, EvictShared
    <2>2. CASE UNCHANGED poolVars
        BY <2>2 DEF poolVars, SharedInv, InvTypes, InvPc, InvHeld, InvIdle, InvOnce
    <2> QED BY <2>1, <2>2
<1> QED BY <1>1, <1>2, PTL DEF Spec

\* No client is used by two requests, nor handed out while it is on a list,
\* however many pools getInstance has created and wherever clients go back to.
THEOREM NoSharing == Spec => []NoClientShared
<1>1. SharedInv => NoClientShared
    BY DEF SharedInv, InvHeld, InvIdle, InvOnce, NoClientShared, Held, IdleIn
<1> QED BY <1>1, SharedInduction, PTL

-----------------------------------------------------------------------------
(* The count and the limit.                                                  *)

\* While there is one pool, what it counts is what is out, and what is out and
\* what is idle together are within the limit: it makes a client only when
\* none is idle, and keeps one only when it comes back.
CountInv ==
    /\ IsFiniteSet(Held)
    /\ \A p \in Pools \ made : active[p] = 0 /\ idle[p] = <<>>
    /\ Cardinality(made) <= 1 =>
        \A p \in made : active[p] = Cardinality(Held) /\ active[p] + Len(idle[p]) <= MaxActive

LEMMA OnePool ==
    ASSUME InvTypes, Cardinality(made) <= 1, NEW p \in made
    PROVE  made = {p}
<1>1. Cardinality(made) \in Nat /\ Cardinality(made) # 0
    BY FS_CardinalityType, FS_EmptySet DEF InvTypes
<1>2. Cardinality(made) = 1
    BY <1>1
<1>3. \E x : made = {x}
    BY <1>2, FS_Singleton DEF InvTypes
<1> QED BY <1>3

\* CountInv of the only pool.
LEMMA OneIsOne ==
    ASSUME CountInv, NEW p, made = {p}
    PROVE  active[p] = Cardinality(Held) /\ active[p] + Len(idle[p]) <= MaxActive
<1>1. Cardinality(made) = 1
    BY FS_Singleton
<1> QED BY <1>1 DEF CountInv

LEMMA InitCount == PoolInit => CountInv
<1> SUFFICES ASSUME PoolInit PROVE CountInv
    OBVIOUS
<1>1. Held = {}
    BY DEF PoolInit, Held
<1> QED BY <1>1, FS_EmptySet DEF PoolInit, CountInv

\* A client that is handed out is one more, one that comes back one less.
LEMMA HeldMore ==
    ASSUME SharedInv, NEW q \in Reqs, NEW c \in Clients, client[q] = Null,
           \A r \in Reqs : client[r] # c,
           client' = [client EXCEPT ![q] = c]
    PROVE  Held' = Held \cup {c} /\ c \notin Held
BY ObjectPoolAssumption DEF ObjectPoolAssumption, SharedInv, InvTypes, Held

LEMMA HeldLess ==
    ASSUME SharedInv, NEW q \in Reqs, client[q] # Null,
           client' = [client EXCEPT ![q] = Null]
    PROVE  Held' = Held \ {client[q]} /\ client[q] \in Held
BY DEF SharedInv, InvTypes, InvHeld, Held

LEMMA QuietCount ==
    ASSUME SharedInv, CountInv, NEW q \in Reqs, Quiet(q)
    PROVE  CountInv'
<1> USE DEF SharedInv
<1>1. UNCHANGED <<idle, active, client>>
    BY DEF Quiet, Call, FindPool, CreatePool, EnterPool, MakeFails, Use
<1>2. Held' = Held
    BY <1>1 DEF Held
<1>3. CASE CreatePool(q)
    <2>1. PICK p \in Pools \ made : made' = made \cup {p}
        BY <1>3 DEF CreatePool
    <2>2. IsFiniteSet(made')
        BY <2>1, FS_AddElement DEF InvTypes
    <2>3. active[p] = 0 /\ idle[p] = <<>>
        BY <2>1 DEF CountInv
    <2>4. ASSUME Cardinality(made') <= 1, NEW r \in made'
          PROVE  active[r] = Cardinality(Held) /\ active[r] + Len(idle[r]) <= MaxActive
        <3>1. Cardinality(made') = Cardinality(made) + 1 /\ Cardinality(made) \in Nat
            BY <2>1, FS_AddElement, FS_CardinalityType DEF InvTypes
        <3>2. made = {}
            BY <2>4, <3>1, FS_EmptySet DEF InvTypes
        <3>3. \A t \in Reqs : client[t] = Null
            BY <3>2 DEF InvTypes, InvPc
        <3>4. Held = {}
            BY <3>3 DEF Held
        <3>5. r = p /\ Len(idle[p]) = 0
            BY <2>1, <2>3, <3>2
        <3> QED BY <2>3, <3>4, <3>5, FS_EmptySet, ObjectPoolAssumption DEF ObjectPoolAssumption
    <2> QED BY <1>1, <1>2, <2>1, <2>4 DEF CountInv
<1>4. CASE ~ CreatePool(q)
    <2>1. UNCHANGED made
        BY <1>4 DEF Quiet, Call, FindPool, EnterPool, MakeFails, Use
    <2> QED BY <1>1, <1>2, <2>1 DEF CountInv
<1> QED BY <1>3, <1>4

\* The parts of CountInv, for a step that changes the lists and counts of one
\* pool only.
LEMMA CountStep ==
    ASSUME SharedInv, CountInv, NEW p \in made, UNCHANGED made,
           IsFiniteSet(Held'),
           \A t \in Pools \ {p} : active'[t] = active[t] /\ idle'[t] = idle[t],
           made = {p} => /\ active'[p] = Cardinality(Held')
                         /\ active'[p] + Len(idle'[p]) <= MaxActive
    PROVE  CountInv'
<1> USE DEF SharedInv
<1>1. \A t \in Pools \ made' : active'[t] = 0 /\ idle'[t] = <<>>
    BY DEF CountInv
<1>2. ASSUME Cardinality(made') <= 1, NEW t \in made'
      PROVE  active'[t] = Cardinality(Held') /\ active'[t] + Len(idle'[t]) <= MaxActive
    <2>1. made = {p}
        BY <1>2, OnePool
    <2> QED BY <2>1
<1> QED BY <1>1, <1>2 DEF CountInv

LEMMA TakeCount ==
    ASSUME SharedInv, CountInv, NEW q \in Reqs, TakeIdle(q, "use")
    PROVE  CountInv'
<1> USE DEF SharedInv
<1> DEFINE p == at[q]
           s == idle[p]
<1>1. /\ pc[q] = "wait" /\ s # <<>>
      /\ client' = [client EXCEPT ![q] = Head(s)]
      /\ active' = [active EXCEPT ![p] = active[p] + 1]
      /\ idle' = [idle EXCEPT ![p] = Tail(s)]
      /\ UNCHANGED made
    BY DEF TakeIdle, Borrowed, Goto
<1>2. p \in made /\ p \in Pools /\ s \in Seq(Clients) /\ client[q] = Null /\ active[p] \in Int
    BY <1>1 DEF InvTypes, InvPc
<1>3. /\ Len(s) \in Nat \ {0}
      /\ Len(Tail(s)) = Len(s) - 1
      /\ Head(s) = s[1]
    BY <1>1, <1>2, TakeFirst
<1>4. s[1] \in Clients /\ \A r \in Reqs : client[r] # s[1]
    <2>1. 1 \in 1..Len(s)
        BY <1>3
    <2> QED BY <1>2, <2>1, ElementOfSeq DEF InvIdle
<1> HIDE DEF s
<1>5. Held' = Held \cup {s[1]} /\ s[1] \notin Held
    BY <1>1, <1>2, <1>3, <1>4, HeldMore
<1>6. IsFiniteSet(Held') /\ Cardinality(Held') = Cardinality(Held) + 1
    BY <1>5, FS_AddElement DEF CountInv
<1>7. \A t \in Pools \ {p} : active'[t] = active[t] /\ idle'[t] = idle[t]
    BY <1>1 DEF InvTypes
<1>8. active'[p] = active[p] + 1 /\ idle'[p] = Tail(s)
    BY <1>1, <1>2 DEF InvTypes
<1>9. ASSUME made = {p}
      PROVE  active'[p] = Cardinality(Held') /\ active'[p] + Len(idle'[p]) <= MaxActive
    <2>1. active[p] = Cardinality(Held) /\ active[p] + Len(s) <= MaxActive
        BY <1>9, OneIsOne DEF s
    <2> QED BY <1>2, <1>3, <1>6, <1>8, <2>1, ObjectPoolAssumption DEF ObjectPoolAssumption
<1> QED BY <1>1, <1>2, <1>6, <1>7, <1>9, CountStep

LEMMA MakeCount ==
    ASSUME SharedInv, CountInv, NEW q \in Reqs, NEW c \in Clients, MakeClient(q, c, "use")
    PROVE  CountInv'
<1> USE DEF SharedInv
<1> DEFINE p == at[q]
<1>1. /\ pc[q] = "wait" /\ c \notin InUse
      /\ idle[p] = <<>> /\ active[p] < MaxActive
      /\ client' = [client EXCEPT ![q] = c]
      /\ active' = [active EXCEPT ![p] = active[p] + 1]
      /\ UNCHANGED <<made, idle>>
    BY DEF MakeClient, MayMake, Borrowed, Goto
<1>2. p \in made /\ p \in Pools /\ client[q] = Null /\ active[p] \in Int
    BY <1>1 DEF InvTypes, InvPc
<1>3. \A r \in Reqs : client[r] # c
    BY <1>1, ObjectPoolAssumption DEF ObjectPoolAssumption, InUse, Held
<1>4. Held' = Held \cup {c} /\ c \notin Held
    BY <1>1, <1>2, <1>3, HeldMore
<1>5. IsFiniteSet(Held') /\ Cardinality(Held') = Cardinality(Held) + 1
    BY <1>4, FS_AddElement DEF CountInv
<1>6. \A t \in Pools \ {p} : active'[t] = active[t] /\ idle'[t] = idle[t]
    BY <1>1 DEF InvTypes
<1>7. active'[p] = active[p] + 1 /\ Len(idle'[p]) = 0
    BY <1>1, <1>2 DEF InvTypes
<1>8. ASSUME made = {p}
      PROVE  active'[p] = Cardinality(Held') /\ active'[p] + Len(idle'[p]) <= MaxActive
    <2>1. active[p] = Cardinality(Held)
        BY <1>8, OneIsOne
    <2> QED BY <1>1, <1>2, <1>5, <1>7, <2>1, ObjectPoolAssumption DEF ObjectPoolAssumption
<1> QED BY <1>1, <1>2, <1>5, <1>6, <1>8, CountStep

LEMMA ReturnCount ==
    ASSUME SharedInv, CountInv, NEW q \in Reqs, Return(q)
    PROVE  CountInv'
<1> USE DEF SharedInv
<1> DEFINE c == client[q]
           s == idle[pool]
<1>1. /\ pc[q] = "return"
      /\ idle' = IF Keeps(pool) THEN [idle EXCEPT ![pool] = <<c>> \o s] ELSE idle
      /\ active' = [active EXCEPT ![pool] = active[pool] - 1]
      /\ client' = [client EXCEPT ![q] = Null]
      /\ UNCHANGED made
    BY DEF Return, GiveBack, Goto
<1>2. /\ pool \in made /\ pool \in Pools
      /\ s \in Seq(Clients) /\ c \in Clients /\ c # Null /\ active[pool] \in Int
    BY <1>1, ObjectPoolAssumption DEF ObjectPoolAssumption, InvTypes, InvPc
<1>3. Len(s) \in Nat /\ Len(<<c>> \o s) = Len(s) + 1
    BY <1>2, PutFirst
<1> DEFINE new == <<c>> \o s
<1> HIDE DEF new, s
<1>4. Held' = Held \ {c} /\ c \in Held
    BY <1>1, <1>2, HeldLess
<1>5. IsFiniteSet(Held') /\ Cardinality(Held') = Cardinality(Held) - 1
    BY <1>4, FS_RemoveElement DEF CountInv
<1>6. \A t \in Pools \ {pool} : active'[t] = active[t] /\ idle'[t] = idle[t]
    BY <1>1 DEF InvTypes
<1>7. active'[pool] = active[pool] - 1 /\ Len(idle'[pool]) <= Len(s) + 1 /\ Len(idle'[pool]) \in Nat
    BY <1>1, <1>2, <1>3 DEF InvTypes, s
<1>8. ASSUME made = {pool}
      PROVE  active'[pool] = Cardinality(Held') /\ active'[pool] + Len(idle'[pool]) <= MaxActive
    <2>1. active[pool] = Cardinality(Held) /\ active[pool] + Len(s) <= MaxActive
        BY <1>8, OneIsOne DEF s
    <2> QED BY <1>2, <1>3, <1>5, <1>7, <2>1, ObjectPoolAssumption DEF ObjectPoolAssumption
<1> QED BY <1>1, <1>2, <1>5, <1>6, <1>8, CountStep

LEMMA EvictCount ==
    ASSUME SharedInv, CountInv, NEW p \in Pools, NEW n \in 1..MaxIdle, Evict(p, n)
    PROVE  CountInv'
<1> USE DEF SharedInv
<1> DEFINE s == idle[p]
           new == SubSeq(s, 1, n - 1) \o SubSeq(s, n + 1, Len(s))
<1>1. /\ n \in 1..Len(s)
      /\ idle' = [idle EXCEPT ![p] = new]
      /\ UNCHANGED <<made, active, client>>
    BY DEF Evict
<1>2. s \in Seq(Clients) /\ active[p] \in Int
    BY DEF InvTypes
<1>3. Len(s) \in Nat /\ Len(new) = Len(s) - 1
    BY <1>1, <1>2, LeaveOut
<1> HIDE DEF new
<1>4. p \in made
    <2>1. Len(s) # 0
        BY <1>1, <1>3
    <2> QED BY <2>1 DEF CountInv
<1>5. Held' = Held
    BY <1>1 DEF Held
<1>6. \A t \in Pools \ {p} : active'[t] = active[t] /\ idle'[t] = idle[t]
    BY <1>1 DEF InvTypes
<1>7. active'[p] = active[p] /\ idle'[p] = new
    BY <1>1 DEF InvTypes
<1>8. ASSUME made = {p}
      PROVE  active'[p] = Cardinality(Held') /\ active'[p] + Len(idle'[p]) <= MaxActive
    <2>1. active[p] = Cardinality(Held) /\ active[p] + Len(s) <= MaxActive
        BY <1>8, OneIsOne
    <2> QED BY <1>2, <1>3, <1>5, <1>7, <2>1, ObjectPoolAssumption DEF ObjectPoolAssumption
<1> QED BY <1>1, <1>4, <1>5, <1>6, <1>8, CountStep DEF CountInv

LEMMA CountInduction == Spec => [](SharedInv /\ CountInv)
<1>1. PoolInit => CountInv
    BY InitCount
<1>2. SharedInv /\ CountInv /\ [Next]_poolVars => CountInv'
    <2> SUFFICES ASSUME SharedInv, CountInv, [Next]_poolVars PROVE CountInv'
        OBVIOUS
    <2>1. CASE Next
        BY <2>1, NextCases, QuietCount, TakeCount, MakeCount, ReturnCount, EvictCount
    <2>2. CASE UNCHANGED poolVars
        BY <2>2 DEF poolVars, CountInv, Held
    <2> QED BY <2>1, <2>2
<1> QED BY <1>1, <1>2, SharedInduction, PTL DEF Spec

\* Unless two requests each created a pool, no more than MaxActive clients are
\* out, and the pool counts exactly those that are.
THEOREM LimitKept == Spec => []LimitUnlessTwoPools
<1>1. SharedInv /\ CountInv => LimitUnlessTwoPools
    <2> SUFFICES ASSUME SharedInv, CountInv, ~ (Cardinality(made) > 1)
                 PROVE  /\ Cardinality(Held) <= MaxActive
                        /\ \A p \in made : active[p] = Cardinality(Held)
        BY DEF LimitUnlessTwoPools
    <2>1. Cardinality(made) \in Nat /\ Cardinality(Held) \in Nat
        BY FS_CardinalityType DEF SharedInv, InvTypes, CountInv
    <2>2. \A p \in made : active[p] = Cardinality(Held) /\ active[p] + Len(idle[p]) <= MaxActive
        BY <2>1 DEF CountInv
    <2>3. CASE made = {}
        <3>1. \A q \in Reqs : client[q] = Null
            BY <2>3 DEF SharedInv, InvTypes, InvPc
        <3>2. Held = {}
            BY <3>1 DEF Held
        <3> QED BY <2>3, <3>2, FS_EmptySet, ObjectPoolAssumption DEF ObjectPoolAssumption
    <2>4. CASE made # {}
        <3>1. PICK p \in made : TRUE
            BY <2>4
        <3>2. Len(idle[p]) \in Nat
            BY LenProperties DEF SharedInv, InvTypes
        <3> QED BY <2>1, <2>2, <3>1, <3>2, ObjectPoolAssumption DEF ObjectPoolAssumption
    <2> QED BY <2>3, <2>4
<1> QED BY <1>1, CountInduction, PTL
=============================================================================
