---------------------------- MODULE MCUsrAccount ----------------------------
(* Small instances of UsrAccount.                                            *)
EXTENDS UsrAccount, TLC, FiniteSets

\* One user at the start, in any state, with the initial password.
OneUsr ==
    /\ Init
    /\ Cardinality(Users) = 1
    /\ \A u \in Users : usr[u].pwd = InitPwd /\ usr[u].aut = "1"

MCSpec == OneUsr /\ [][Next]_vars

\* Later: that user, in normal state, has logged in, and no request is under way.
LoggedIn ==
    /\ usr \in [UsrIDs -> Usr \cup {Null}]
    /\ Cardinality(Users) = 1
    /\ \E u \in Users :
        /\ usr[u].pwd = InitPwd /\ usr[u].sta = "1" /\ usr[u].aut = "0"
        /\ sess = [s \in Sessions |-> [usr |-> u, cod |-> usr[u].cod]]
    /\ pc     = [q \in Reqs |-> "idle"]
    /\ form   = [q \in Reqs |-> NoForm]
    /\ entity = [q \in Reqs |-> Null]
    /\ logon  = [q \in Reqs |-> Null]
    /\ mates  = [q \in Reqs |-> {}]
    /\ stale  = [q \in Reqs |-> FALSE]

LoggedInSpec == LoggedIn /\ [][Next]_vars

\* IDs, codes, names and requests are interchangeable.
Symmetry == Permutations(UsrIDs) \cup Permutations(Cods) \cup Permutations(Nams)
                \cup Permutations(Reqs)

=============================================================================
