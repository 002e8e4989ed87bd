--------------------------- MODULE MCServerBringUp ---------------------------
(* Small projects for ServerBringUp: servers 1 and 2 share a domain, 3 is in *)
(* a second one.                                                            *)
EXTENDS ServerBringUp, TLC

MCDomainOf == [s \in Servers |-> IF s <= 2 THEN 1 ELSE 2]

\* Requests for the project are interchangeable.
Symm == Permutations(Deploys)
=============================================================================
