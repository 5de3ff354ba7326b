----------------------------- MODULE MCRoleAuth -----------------------------
(* Small instances of RoleAuth. *)
EXTENDS RoleAuth, TLC

\* The instances start with the built-in role, one role of the administrators
\* and IDs nobody has used, with any rows between the roles, users and functions.
CONSTANTS r1, n0, n1
MCInit ==
    /\ Init
    /\ roleNam = [r \in RoleIDs |-> CASE r = SUPERROLE -> n0 [] r = r1 -> n1 [] OTHER -> Unborn]

MCSpec == MCInit /\ [][Next]_vars

\* Every role starts with every user and every function: the DELETEs meet.
FullInit == MCInit /\ rows = [role : Roles, of : UsrIDs \cup FuncIDs, by : {Seed}]
MCFairSpec == FullInit /\ [][Next]_vars /\ Fairness

\* Requests, users and functions are interchangeable.
Symmetry == Permutations(Reqs) \cup Permutations(UsrIDs) \cup Permutations(FuncIDs)

=============================================================================
