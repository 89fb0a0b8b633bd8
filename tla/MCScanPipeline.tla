--------------------------- MODULE MCScanPipeline ---------------------------
(***************************************************************************)
(* Instances of ScanPipeline for TLC.                                      *)
(***************************************************************************)
EXTENDS ScanPipeline, TLC

\* No two messages share a dedup_key.
UniqueKeys == [u \in Uids |-> u]

\* The last message is another copy of the first: the same Message-ID.
CopiedMessage == [u \in Uids |-> IF u = MaxUid THEN 1 ELSE u]

\* Messages of these kinds, the second one in good order.
SecondPlain(kinds) == {k \in [Uids -> kinds] : k[2] = "plain"}

AllPlain == SecondPlain({"plain"})
NoneOversize == SecondPlain(AllKinds \ {"oversize"})
NoneTrusted == SecondPlain(AllKinds \ {"trusted"})

WorkerSymmetry == Permutations(Workers)
=============================================================================
