---------------------------- MODULE MCFtpStorage ----------------------------
(* Small instances of FtpStorage.                                            *)
EXTENDS FtpStorage, TLC

\* Requests, pools and clients are interchangeable.
Symmetry == Permutations(Reqs) \cup Permutations(Pools) \cup Permutations(Clients)

=============================================================================
