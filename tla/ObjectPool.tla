----------------------------- MODULE ObjectPool -----------------------------
(***************************************************************************)
(* The pools of FtpPool and FastDFSPool: a static field with a             *)
(* GenericObjectPool of commons-pool, created by the first request that    *)
(* finds the field null, without a lock.  Its clients are connections.     *)
(*                                                                         *)
(* This module has the operations; the modules that use a pool add what a  *)
(* request does with the client it holds.                                  *)
(***************************************************************************)
EXTENDS Integers, Sequences, FiniteSets

CONSTANTS
    Reqs,       \* requests, each of which borrows one client
    Pools,      \* GenericObjectPools: one per request is enough
    Clients,    \* clients: one per request is enough
    MaxActive,  \* clients a pool hands out at a time (100 in the code)
    MaxIdle,    \* idle clients it keeps (8, the default)
    Null        \* no pool, no client

ObjectPoolAssumption ==
    /\ IsFiniteSet(Reqs)
    /\ MaxActive \in Nat \ {0}
    /\ MaxIdle \in Nat \ {0}
    /\ Null \notin Pools \cup Clients

ASSUME ObjectPoolAssumption

VARIABLES
    pool,       \* the static field
    made,       \* the pools created so far
    active,     \* how many clients each pool counts as handed out
    idle,       \* the idle clients of each pool, the next to be used first
    pc,         \* what each request does next
    at,         \* the pool from which each request borrows, or Null
    client      \* the client each request holds, or Null

poolVars == <<pool, made, active, idle, pc, at, client>>

IdleIn(p) == {idle[p][i] : i \in 1..Len(idle[p])}
Held      == {client[q] : q \in Reqs} \ {Null}
InUse     == Held \cup UNION {IdleIn(p) : p \in Pools}

PoolInit ==
    /\ pool   = Null
    /\ made   = {}
    /\ active = [p \in Pools |-> 0]
    /\ idle   = [p \in Pools |-> <<>>]
    /\ pc     = [q \in Reqs |-> "idle"]
    /\ at     = [q \in Reqs |-> Null]
    /\ client = [q \in Reqs |-> Null]

Goto(q, next) == pc' = [pc EXCEPT ![q] = next]

-----------------------------------------------------------------------------
(* getInstance.                                                              *)

FindPool(q) ==
    /\ pc[q] = "start"
    /\ Goto(q, IF pool = Null THEN "create" ELSE "enter")
    /\ UNCHANGED <<pool, made, active, idle, at, client>>

\* The field may have been set since; it is replaced then.
CreatePool(q) ==
    /\ pc[q] = "create"
    /\ \E p \in Pools \ made : pool' = p /\ made' = made \cup {p}
    /\ Goto(q, "enter")
    /\ UNCHANGED <<active, idle, at, client>>

-----------------------------------------------------------------------------
(* getResource: borrowObject on the pool that is in the field now.           *)

EnterPool(q) ==
    /\ pc[q] = "enter"
    /\ at' = [at EXCEPT ![q] = pool]
    /\ Goto(q, "wait")
    /\ UNCHANGED <<pool, made, active, idle, client>>

Borrowed(q, c) ==
    /\ client' = [client EXCEPT ![q] = c]
    /\ active' = [active EXCEPT ![at[q]] = @ + 1]

\* Faulty: the client stays on the list.
TakeIdleKept(q, next) ==
    /\ pc[q] = "wait"
    /\ idle[at[q]] # <<>>
    /\ Borrowed(q, Head(idle[at[q]]))
    /\ Goto(q, next)
    /\ UNCHANGED <<pool, made, idle, at>>

\* The idle client that was returned last.
TakeIdle(q, next) ==
    /\ pc[q] = "wait"
    /\ idle[at[q]] # <<>>
    /\ Borrowed(q, Head(idle[at[q]]))
    /\ idle' = [idle EXCEPT ![at[q]] = Tail(@)]
    /\ Goto(q, next)
    /\ UNCHANGED <<pool, made, at>>

\* Faulty: one too many.
MayMakeMore(q) == pc[q] = "wait" /\ idle[at[q]] = <<>> /\ active[at[q]] <= MaxActive

\* None is idle: a new one is made, unless MaxActive are out; then the request
\* waits, without a time limit (waiting requests are served in any order).
MayMake(q) == pc[q] = "wait" /\ idle[at[q]] = <<>> /\ active[at[q]] < MaxActive

MakeClient(q, c, next) ==
    /\ MayMake(q)
    /\ c \in Clients \ InUse
    /\ Borrowed(q, c)
    /\ Goto(q, next)
    /\ UNCHANGED <<pool, made, idle, at>>

\* makeObject throws, getResource gives null, and the caller trips over it.
MakeFails(q) ==
    /\ MayMake(q)
    /\ Goto(q, "failed")
    /\ UNCHANGED <<pool, made, active, idle, at, client>>

-----------------------------------------------------------------------------
(* returnResource: returnObject on the pool that is in the field now, which  *)
(* need not be the one the client came from; and the pool's evictor.         *)

Keeps(p) == Len(idle[p]) < MaxIdle

\* Faulty: a client that is destroyed is still counted.
GiveBackUncounted(q, end) ==
    /\ idle' = IF Keeps(pool) THEN [idle EXCEPT ![pool] = <<client[q]>> \o @] ELSE idle
    /\ active' = IF Keeps(pool) THEN [active EXCEPT ![pool] = @ - 1] ELSE active
    /\ client' = [client EXCEPT ![q] = Null]
    /\ Goto(q, end)
    /\ UNCHANGED <<pool, made, at>>

\* A pool that has enough idle clients destroys the one it gets back.
GiveBack(q, end) ==
    /\ idle' = IF Keeps(pool) THEN [idle EXCEPT ![pool] = <<client[q]>> \o @] ELSE idle
    /\ active' = [active EXCEPT ![pool] = @ - 1]
    /\ client' = [client EXCEPT ![q] = Null]
    /\ Goto(q, end)
    /\ UNCHANGED <<pool, made, at>>

\* A client that has been idle for minEvictableIdleTimeMillis, or that
\* validateObject finds broken, is destroyed.
Evict(p, i) ==
    /\ i \in 1..Len(idle[p])
    /\ idle' = [idle EXCEPT ![p] = SubSeq(@, 1, i - 1) \o SubSeq(@, i + 1, Len(@))]
    /\ UNCHANGED <<pool, made, active, pc, at, client>>

-----------------------------------------------------------------------------
(* Properties of any use of a pool.                                          *)

\* A client is used by one request at a time: it is neither held by two, nor
\* held and idle, nor idle twice, whichever pool it was returned to.
NoClientShared ==
    /\ \A q, r \in Reqs : (q # r /\ client[q] # Null) => client[q] # client[r]
    /\ \A p \in Pools : Held \cap IdleIn(p) = {}
    /\ \A p, s \in Pools : \A i \in 1..Len(idle[p]), j \in 1..Len(idle[s]) :
        idle[p][i] = idle[s][j] => (p = s /\ i = j)

\* No more than MaxActive clients are out, and the pool counts them right,
\* unless two requests each created a pool.
LimitUnlessTwoPools ==
    \/ Cardinality(made) > 1
    \/ /\ Cardinality(Held) <= MaxActive
       /\ \A p \in made : active[p] = Cardinality(Held)
=============================================================================
