--------------------------- MODULE MCMemberDialogs ---------------------------
(* One group and two accounts for MemberDialogs.                            *)
EXTENDS MemberDialogs, TLC

\* The accounts are interchangeable, and so are the saves.
Symm == Permutations(Users) \cup Permutations(Saves)
=============================================================================
