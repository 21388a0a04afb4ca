---------------------------- MODULE WalletLogin -----------------------------
(***************************************************************************)
(* Signing in with a wallet: AuthContext.jsx, useWallet.js and client.js   *)
(* in every open tab, and the backend's auth.py and auth_routes.py with    *)
(* the wallet_nonces table.                                                *)
(*                                                                         *)
(* Each endpoint runs in a database session of its own, loads the row of   *)
(* the address, awaits and commits, so that two tabs interleave in         *)
(* between.  A commit writes only the columns that differ from what the    *)
(* session loaded.  The extension has one selected account, shared by the  *)
(* tabs, and the user may select another at any time.                      *)
(***************************************************************************)
EXTENDS Naturals, FiniteSets

CONSTANTS Tabs, Accounts, None,
          MaxNonces          \* bound on nonces issued

ASSUME LoginBounds == MaxNonces \in Nat /\ None \notin Accounts

VARIABLES
  wallet,     \* the account selected in the extension
  nonces,     \* wallet_nonces: the row of each address, or None
  issued,     \* number of nonces issued; a nonce is its number
  tabs        \* the auth context of each tab, with the login under way

\* History variables: no guard reads them.
VARIABLES
  judged,     \* nonces that a login was verified against
  disturbed   \* tabs during whose login somebody else wrote the row it uses,
              \* or the row expired

loginVars == <<wallet, nonces, issued, tabs, judged, disturbed>>

Row == [nonce : 1..MaxNonces, used : BOOLEAN, live : BOOLEAN]
ASSUME NoneIsNoRow == None \notin Row

\* pc is the await that login is at: "idle", "connect" (eth_requestAccounts),
\* "load" and "issue" (GET /auth/nonce), "sign" (the wallet), "check" and
\* "judge" (POST /auth/wallet).
Tab == [pc : {"idle", "connect", "load", "issue", "sign", "check", "judge"},
        account : Accounts \cup {None}, token : Accounts \cup {None},
        address : Accounts \cup {None},
        nonce : 0..MaxNonces,            \* in the message to sign
        signer : Accounts \cup {None},   \* whose key signed it
        seen : Row \cup {None},          \* what the session loaded
        loginError : {"none", "client", "refused"}]

NewTab == [pc |-> "idle", account |-> None, token |-> None, address |-> None,
           nonce |-> 0, signer |-> None, seen |-> None, loginError |-> "none"]

LoginTypeOK ==
  /\ wallet \in Accounts
  /\ nonces \in [Accounts -> Row \cup {None}]
  /\ issued \in 0..MaxNonces
  /\ tabs \in [Tabs -> Tab]
  /\ \A t \in Tabs : tabs[t].pc \notin {"idle", "connect"} => tabs[t].address \in Accounts
  /\ judged \subseteq 1..MaxNonces /\ disturbed \subseteq Tabs

LoginInit ==
  /\ wallet \in Accounts
  /\ nonces = [a \in Accounts |-> None]
  /\ issued = 0
  /\ tabs = [t \in Tabs |-> NewTab]
  /\ judged = {} /\ disturbed = {}
-----------------------------------------------------------------------------
(* The tab *)

Ended(tab) == [tab EXCEPT !.pc = "idle", !.seen = None]

\* The catch block: whatever failed, the tab has no token.
Failed(tab, why) == [Ended(tab) EXCEPT !.token = None, !.loginError = why]

\* A mutated form: nobody looks whether the wallet gave an account.
WithAddressUnchecked(tab, address) == [tab EXCEPT !.pc = "load", !.address = address]
\* if (!address) throw: then getNonce(address) is sent.
WithAddress(tab, address) ==
  IF address = None THEN Failed(tab, "client")
  ELSE [tab EXCEPT !.pc = "load", !.address = address]

\* The button is there while there is no token and no login under way.  The
\* account of an earlier connect is used again, whatever the wallet shows now.
login(t) ==
  /\ tabs[t].pc = "idle" /\ tabs[t].token = None
  /\ tabs' = [tabs EXCEPT ![t] =
       LET begun == [@ EXCEPT !.loginError = "none", !.signer = None, !.nonce = 0]
       IN  IF begun.account = None THEN [begun EXCEPT !.pc = "connect"]
           ELSE WithAddress(begun, begun.account)]
  /\ disturbed' = disturbed \ {t}
  /\ UNCHANGED <<wallet, nonces, issued, judged>>

\* eth_requestAccounts answers with the selected account first, or the user
\* rejects it and connect returns null.
connect(t, answer) ==
  /\ tabs[t].pc = "connect"
  /\ answer \in {wallet, None}
  /\ tabs' = [tabs EXCEPT ![t] =
       WithAddress([@ EXCEPT !.account = IF answer = None THEN tabs[t].account
                                         ELSE answer], answer)]
  /\ UNCHANGED <<wallet, nonces, issued, judged, disturbed>>

\* getSigner takes the account that is selected by now.
signMessage(t) ==
  /\ tabs[t].pc = "sign"
  /\ tabs' = [tabs EXCEPT ![t].pc = "check", ![t].signer = wallet]
  /\ UNCHANGED <<wallet, nonces, issued, judged, disturbed>>

\* The signature is rejected, or a request does not get through.
LoginFails(t) ==
  /\ tabs[t].pc \in {"sign", "load", "check"}
  /\ tabs' = [tabs EXCEPT ![t] = Failed(@, "client")]
  /\ UNCHANGED <<wallet, nonces, issued, judged, disturbed>>

logout(t) ==
  /\ tabs[t].token # None
  /\ tabs' = [tabs EXCEPT ![t].token = None]
  /\ UNCHANGED <<wallet, nonces, issued, judged, disturbed>>

\* The user selects another account in the extension.
SwitchAccount(a) ==
  /\ wallet # a
  /\ wallet' = a
  /\ UNCHANGED <<nonces, issued, tabs, judged, disturbed>>
-----------------------------------------------------------------------------
(* The backend *)

\* Logins under way on an address, other than the one of tab t.
OthersOn(a, t) ==
  {u \in Tabs \ {t} : tabs[u].address = a /\ tabs[u].pc \notin {"idle", "connect"}}

\* db.get of either endpoint.
LoadForNonce(t) ==
  /\ tabs[t].pc = "load"
  /\ tabs' = [tabs EXCEPT ![t].pc = "issue", ![t].seen = nonces[tabs[t].address]]
  /\ UNCHANGED <<wallet, nonces, issued, judged, disturbed>>

\* A mutated form: used keeps its value.
RenewedStillUsed(row, seen, nonce) == [row EXCEPT !.nonce = nonce, !.live = TRUE]
\* What the UPDATE of generate_nonce makes of the row as it is by now: used is
\* set to False, which is a change only if the session loaded True.
Renewed(row, seen, nonce) ==
  [row EXCEPT !.nonce = nonce, !.live = TRUE, !.used = @ /\ ~seen.used]

\* The commit of generate_nonce, and its answer, which may be lost.  An INSERT
\* fails if the row is there by now.
generate_nonce(t, delivered) ==
  LET tab == tabs[t]
      a == tab.address
      new == issued + 1
      collides == tab.seen = None /\ nonces[a] # None
  IN  /\ tab.pc = "issue"
      /\ IF collides
         THEN /\ tabs' = [tabs EXCEPT ![t] = Failed(@, "refused")]
              /\ UNCHANGED <<nonces, issued, disturbed>>
         ELSE /\ issued < MaxNonces
              /\ issued' = new
              /\ nonces' = [nonces EXCEPT ![a] =
                   IF tab.seen = None THEN [nonce |-> new, used |-> FALSE, live |-> TRUE]
                   ELSE Renewed(@, tab.seen, new)]
              /\ disturbed' = disturbed \cup OthersOn(a, t)
              /\ tabs' = [tabs EXCEPT ![t] =
                   IF delivered THEN [@ EXCEPT !.pc = "sign", !.nonce = new, !.seen = None]
                   ELSE Failed(@, "client")]
      /\ UNCHANGED <<wallet, judged>>

\* The first half of verify_signature_and_consume_nonce: no row, a used one or
\* one past its expiry is refused and nothing is written.
OpenNonce(t) ==
  LET record == nonces[tabs[t].address]
  IN  /\ tabs[t].pc = "check"
      /\ tabs' = [tabs EXCEPT ![t] =
           IF record = None \/ record.used \/ ~record.live THEN Failed(@, "refused")
           ELSE [@ EXCEPT !.pc = "judge", !.seen = record]]
      /\ UNCHANGED <<wallet, nonces, issued, judged, disturbed>>

\* A mutated form: any account's signature will do.
SignedByAnyone(tab) == tab.nonce = tab.seen.nonce
\* recover_message gives the signer's address only for the message that was
\* signed, and some other address for any other message.
SignedByAddress(tab) == tab.nonce = tab.seen.nonce /\ tab.signer = tab.address

\* A mutated form: a wrong signature leaves the nonce as it is.
ConsumedIfRight(row, tab) == [row EXCEPT !.used = @ \/ SignedByAddress(tab)]
\* record.used = True, whatever the outcome.
Consumed(row, tab) == [row EXCEPT !.used = TRUE]

\* The second half: consume, commit, compare; then create_access_token.
verify_signature_and_consume_nonce(t, delivered) ==
  LET tab == tabs[t]
      a == tab.address
  IN  /\ tab.pc = "judge"
      /\ nonces' = [nonces EXCEPT ![a] = Consumed(@, tab)]
      /\ judged' = judged \cup {tab.seen.nonce}
      /\ disturbed' = disturbed \cup OthersOn(a, t)
      /\ tabs' = [tabs EXCEPT ![t] =
           IF ~SignedByAddress(tab) THEN Failed(@, "refused")
           ELSE IF delivered THEN [Ended(@) EXCEPT !.token = a]
           ELSE Failed(@, "client")]
      /\ UNCHANGED <<wallet, issued>>

\* NONCE_TTL_MINUTES pass.
Expire(a) ==
  /\ nonces[a] # None /\ nonces[a].live
  /\ nonces' = [nonces EXCEPT ![a].live = FALSE]
  /\ disturbed' = disturbed \cup {t \in Tabs : tabs[t].address = a /\ tabs[t].pc # "idle"}
  /\ UNCHANGED <<wallet, issued, tabs, judged>>
-----------------------------------------------------------------------------
LoginStep(t) ==
  \/ login(t)
  \/ \E answer \in {wallet, None} : connect(t, answer)
  \/ signMessage(t)
  \/ LoginFails(t)
  \/ LoadForNonce(t)
  \/ \E delivered \in BOOLEAN : generate_nonce(t, delivered)
  \/ OpenNonce(t)
  \/ \E delivered \in BOOLEAN : verify_signature_and_consume_nonce(t, delivered)
-----------------------------------------------------------------------------
(* Properties *)

\* A tab has a token only for the account that its header shows, and only
\* after that account's own key signed the nonce that this tab was given,
\* though the user may have selected another account on the way.
SessionIsProved ==
  \A t \in Tabs : tabs[t].token # None =>
    /\ tabs[t].token = tabs[t].account
    /\ tabs[t].signer = tabs[t].account

\* A nonce that a login was verified against, successfully or not, is never
\* open again: no interleaving of the loads and the partial writes of the two
\* endpoints gives back a nonce that verify_signature_and_consume_nonce spent.
JudgedNonceIsSpent ==
  \A a \in Accounts : nonces[a] # None /\ nonces[a].nonce \in judged => nonces[a].used

\* The backend refuses a login that the named account signed only if another
\* login on the same address wrote the row meanwhile or the nonce expired: a
\* login by itself succeeds, however the earlier ones on the address ended.
LoneLoginSucceeds ==
  \A t \in Tabs :
    tabs[t].loginError = "refused" /\ tabs[t].signer \in {tabs[t].address, None}
      => t \in disturbed
=============================================================================
