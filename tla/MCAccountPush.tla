---------------------------- MODULE MCAccountPush ----------------------------
(* Small labs for AccountPush.                                              *)
EXTENDS AccountPush, TLC

\* One project owns every domain, or each domain is a project's own.
MCOneProject  == [dm \in Domains |-> "p1"]
MCTwoProjects == [dm \in Domains |-> IF dm = 1 THEN "p1" ELSE "p2"]

\* Every request deploys the first project, or each of two one of its own.
MCTarget  == [d \in Deploys |-> "p1"]
MCTargets == [d \in Deploys |-> IF d = CHOOSE e \in Deploys : TRUE THEN "p1" ELSE "p2"]

\* The first controller of each domain.
MCRootOk      == [dm \in Domains |-> "ok"]
MCRootsDiffer == [dm \in Domains |-> IF dm = 1 THEN "ok" ELSE "no_ip"]

\* Names are interchangeable, and requests for the same project are.
Symm == Permutations(Names) \cup Permutations(Deploys)
=============================================================================
