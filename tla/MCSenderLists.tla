--------------------------- MODULE MCSenderLists ---------------------------
(***************************************************************************)
(* Instances of SenderLists, and with it of Accounts, for TLC.             *)
(***************************************************************************)
EXTENDS SenderLists, TLC

Symmetry == Permutations(Sessions) \cup Permutations(Emails)
=============================================================================
