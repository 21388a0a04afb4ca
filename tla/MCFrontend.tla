----------------------------- MODULE MCFrontend -----------------------------
(***************************************************************************)
(* A small instance of Frontend.  The three page groups share only the     *)
(* session, so a behaviour uses one of them, or leaves the pages alone and *)
(* has both tabs sign in.                                                  *)
(***************************************************************************)
EXTENDS Frontend, TLC

CONSTANTS tab1, tab2

Filing == \E j \in Attempts : attempts[j].pc # "new"
LookingUp == page = "claim-status" \/ Len(madeFor) > 0
Premiums == effect > 0 \/ templates # None \/ \E p \in Payments : payments[p].pc # "new"

LoginOnly ==
  page = "none" /\ ~Filing /\ ~LookingUp /\ ~Premiums
Quiet ==   \* the second tab and the wallet stay out of it
  /\ tabs[tab2] = NewTab /\ issued <= 1
  /\ \A a \in Accounts : nonces[a] # None => nonces[a].live
OnePart ==
  \/ LoginOnly
  \/ Quiet /\ Cardinality({b \in {1, 2, 3} :
                \/ b = 1 /\ (Filing \/ page = "file-claim")
                \/ b = 2 /\ LookingUp
                \/ b = 3 /\ (Premiums \/ page \in {"dashboard", "buy-policy"})}) <= 1

Alike == Permutations(Attempts) \cup Permutations(Payments) \cup Permutations(Claims)
           \cup Permutations(Accounts)
=============================================================================
