-------------------------- MODULE MCMailboxService --------------------------
(***************************************************************************)
(* Instances of MailboxService for TLC.                                    *)
(***************************************************************************)
EXTENDS MailboxService, TLC

SessionSymmetry == Permutations(Sessions)
=============================================================================
