------------------------------ MODULE PoolUse -------------------------------
(***************************************************************************)
(* What the storages promise about their pool: a request borrows a client, *)
(* uses it, whatever happens then, and gives it back.                      *)
(***************************************************************************)
EXTENDS ObjectPool

Call(q) ==
    /\ pc[q] = "idle"
    /\ Goto(q, "start")
    /\ UNCHANGED <<pool, made, active, idle, at, client>>

Borrow(q) == TakeIdle(q, "use") \/ \E c \in Clients : MakeClient(q, c, "use")

Use(q) ==
    /\ pc[q] = "use"
    /\ Goto(q, "return")
    /\ UNCHANGED <<pool, made, active, idle, at, client>>

Return(q) == pc[q] = "return" /\ \E end \in {"done", "failed"} : GiveBack(q, end)

Step(q) ==
    \/ FindPool(q)
    \/ CreatePool(q)
    \/ EnterPool(q)
    \/ Borrow(q)
    \/ MakeFails(q)
    \/ Use(q)
    \/ Return(q)

Next ==
    \/ \E q \in Reqs : Call(q) \/ Step(q)
    \/ \E p \in Pools, i \in 1..MaxIdle : Evict(p, i)

Spec == PoolInit /\ [][Next]_poolVars
=============================================================================
