------------------------ MODULE MCClaimVerification -------------------------
(***************************************************************************)
(* Small instances of ClaimVerification: rows are filed with one root, two *)
(* or none; a webhook call has the fields that the endpoint needs or the   *)
(* ones that the indexer's source sends, which are other names.            *)
(***************************************************************************)
EXTENDS ClaimVerification, TLC

BothPayloads == {SentFields, RequiredFields}

\* Requests are alike, and so are roots.
Alike == Permutations(Requests) \cup Permutations(Roots)
=============================================================================
