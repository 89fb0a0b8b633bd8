------------------------- MODULE MCEmailLifecycle -------------------------
(***************************************************************************)
(* Instances of EmailLifecycle for TLC.                                    *)
(***************************************************************************)
EXTENDS EmailLifecycle, TLC

\* The defaults of settings_service, and lists that act before they quarantine.
TidyPolicies ==
  {<<"allow">>, <<"flag", "notify">>, <<"quarantine">>, <<"quarantine", "notify">>,
   <<"move_to_folder", "quarantine", "notify">>, <<"flag", "quarantine", "notify">>}

\* Lists that set the status after quarantining, move twice, delete, repeat.
MixedPolicies ==
  {<<"notify", "quarantine", "flag">>, <<"quarantine", "move_to_spam", "notify">>,
   <<"move_to_folder", "move_to_spam">>, <<"delete", "notify">>,
   <<"quarantine", "notify", "quarantine">>, <<"allow", "move_to_folder">>}

AllPolicies == TidyPolicies \cup MixedPolicies

RequestSymmetry == Permutations(Requests)
===========================================================================
