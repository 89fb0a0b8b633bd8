--------------------------- MODULE MCImapProvider ---------------------------
(***************************************************************************)
(* Instances of ImapProvider for TLC.                                      *)
(***************************************************************************)
EXTENDS ImapProvider, TLC

\* What a policy asks of the provider for one message.
PolicyOperations == {<<"move">>, <<"delete">>, <<"move", "move">>, <<"move", "delete">>}
=============================================================================
