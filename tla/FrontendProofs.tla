--------------------------- MODULE FrontendProofs ---------------------------
(***************************************************************************)
(* Theorems about the web application and the wallet login.                *)
(*                                                                         *)
(* The invariant has four parts that do not need each other: what holds of *)
(* a login at each of its awaits and of the rows it uses (LoginInv), of    *)
(* the attempts to file a claim and their roots (FilingInv), of the claim  *)
(* that is shown and the keys that were made (LookupInv), and of the       *)
(* payments and the badge's requests (PremiumInv).                         *)
(***************************************************************************)
EXTENDS Frontend, FiniteSetTheorems, SequenceTheorems, TLAPS
-----------------------------------------------------------------------------
(* The wallet login *)

\* What holds of the tab of a login at each of its awaits.
TabStands(t) ==
  LET tab == tabs[t]
  IN  /\ tab.pc # "idle" => tab.token = None /\ tab.loginError = "none"
      /\ tab.pc \notin {"idle", "connect"} => tab.address = tab.account
      /\ tab.pc \in {"connect", "load", "issue", "sign"} => tab.signer = None
      /\ tab.pc \in {"check", "judge"} => tab.signer \in Accounts
      /\ tab.pc = "issue" /\ tab.seen # None => nonces[tab.address] # None
      /\ tab.pc = "judge" => tab.seen # None /\ nonces[tab.address] # None

\* The nonce that a session loaded is no other address's, now or later.
SeenStands(t) ==
  tabs[t].pc = "judge" =>
    /\ tabs[t].seen.nonce <= issued
    /\ \A b \in Accounts \ {tabs[t].address} :
         nonces[b] # None => nonces[b].nonce # tabs[t].seen.nonce

\* While nobody else wrote the row that a login uses, it is as the login left it.
RowStands(t) ==
  LET tab == tabs[t]
      row == nonces[tab.address]
  IN  t \notin disturbed =>
        /\ tab.pc = "issue" => tab.seen = row
        /\ tab.pc \in {"sign", "check", "judge"} =>
             row # None /\ row.nonce = tab.nonce /\ ~row.used /\ row.live
        /\ tab.pc = "judge" => tab.seen.nonce = tab.nonce

\* Nonces are issued once, each to one address.
NoncesStand ==
  /\ \A a \in Accounts : nonces[a] # None => nonces[a].nonce <= issued
  /\ \A a, b \in Accounts : nonces[a] # None /\ nonces[b] # None
                              /\ nonces[a].nonce = nonces[b].nonce => a = b
  /\ \A n \in judged : n <= issued

\* All that is said of one tab.
TabInv(t) ==
  /\ TabStands(t) /\ SeenStands(t) /\ RowStands(t)
  /\ tabs[t].pc \notin {"idle", "connect"} => tabs[t].address \in Accounts
  /\ tabs[t].token # None => /\ tabs[t].token = tabs[t].account
                             /\ tabs[t].signer = tabs[t].account
  /\ tabs[t].loginError = "refused" /\ tabs[t].signer \in {tabs[t].address, None}
       => t \in disturbed

LoginInv ==
  /\ wallet \in Accounts
  /\ nonces \in [Accounts -> Row \cup {None}]
  /\ issued \in 0..MaxNonces
  /\ tabs \in [Tabs -> Tab]
  /\ judged \in SUBSET (1..MaxNonces) /\ disturbed \in SUBSET Tabs
  /\ NoncesStand /\ JudgedNonceIsSpent
  /\ \A t \in Tabs : TabInv(t)

\* What the invariant says of the login in the terms of the model.
LEMMA LoginImplies ==
  LoginInv => LoginTypeOK /\ SessionIsProved /\ JudgedNonceIsSpent /\ LoneLoginSucceeds
  BY DEF LoginInv, LoginTypeOK, TabInv, SessionIsProved, LoneLoginSucceeds

\* The steps of the tabs, the wallet and the backend's clock.
LoginMoves ==
  \/ \E t \in Tabs : LoginStep(t) \/ logout(t)
  \/ \E a \in Accounts : SwitchAccount(a) \/ Expire(a)

\* The tab that the catch block leaves.
LEMMA FailedTab ==
  ASSUME NEW tab \in Tab, NEW why \in {"client", "refused"}
  PROVE  LET f == Failed(tab, why)
         IN  /\ f \in Tab
             /\ f.pc = "idle" /\ f.token = None /\ f.loginError = why
             /\ f.account = tab.account /\ f.address = tab.address
             /\ f.signer = tab.signer
  BY DEF Failed, Ended, Tab

\* A step of one tab that writes no row disturbs no other tab.
LEMMA QuietStep ==
  ASSUME LoginInv, NEW t \in Tabs, NEW new \in Tab,
         tabs' = [tabs EXCEPT ![t] = new],
         UNCHANGED <<wallet, nonces, issued, judged>>,
         disturbed' \in SUBSET Tabs,
         \A u \in Tabs \ {t} : u \in disturbed' <=> u \in disturbed,
         TabInv(t)'
  PROVE  LoginInv'
<1>0. /\ tabs \in [Tabs -> Tab] /\ wallet \in Accounts
      /\ nonces \in [Accounts -> Row \cup {None}] /\ issued \in 0..MaxNonces
      /\ judged \in SUBSET (1..MaxNonces)
      /\ NoncesStand /\ JudgedNonceIsSpent
      /\ \A u \in Tabs : TabInv(u)
  BY DEF LoginInv
<1>1. tabs' \in [Tabs -> Tab] /\ \A u \in Tabs \ {t} : tabs'[u] = tabs[u]
  BY <1>0
<1>2. ASSUME NEW u \in Tabs \ {t} PROVE TabInv(u)'
  <2>1. TabInv(u) /\ tabs'[u] = tabs[u] /\ (u \in disturbed' <=> u \in disturbed)
    BY <1>0, <1>1
  <2> QED BY <2>1 DEF TabInv, TabStands, SeenStands, RowStands
<1>3. NoncesStand' /\ JudgedNonceIsSpent'
  BY <1>0 DEF NoncesStand, JudgedNonceIsSpent
<1> QED BY <1>0, <1>1, <1>2, <1>3 DEF LoginInv

\* The tab as it is, in the form the steps below use it.
LEMMA TabTypes ==
  ASSUME LoginInv, NEW t \in Tabs
  PROVE  /\ tabs[t] \in Tab /\ TabInv(t)
         /\ tabs[t].pc \in {"idle", "connect", "load", "issue", "sign", "check", "judge"}
         /\ tabs[t].account \in Accounts \cup {None}
         /\ tabs[t].address \in Accounts \cup {None}
         /\ tabs[t].seen \in Row \cup {None}
         /\ None \notin Accounts /\ None \notin Row
         /\ wallet \in Accounts
         /\ \A a \in Accounts : nonces[a] \in Row \cup {None}
         /\ disturbed \in SUBSET Tabs
  BY LoginBounds, NoneIsNoRow DEF LoginInv, Tab

\* The button: the tab has no token, and what an earlier login left is reset.
LEMMA LoginBegins ==
  ASSUME LoginInv, NEW t \in Tabs, login(t)
  PROVE  LoginInv'
<1> DEFINE begun == [tabs[t] EXCEPT !.loginError = "none", !.signer = None, !.nonce = 0]
           new == IF begun.account = None THEN [begun EXCEPT !.pc = "connect"]
                  ELSE WithAddress(begun, begun.account)
<1>1. /\ tabs[t].pc = "idle" /\ tabs[t].token = None
      /\ tabs' = [tabs EXCEPT ![t] = new]
      /\ disturbed' = disturbed \ {t}
      /\ UNCHANGED <<wallet, nonces, issued, judged>>
  BY DEF login
<1>2. /\ begun \in Tab /\ begun.pc = "idle" /\ begun.token = None
      /\ begun.loginError = "none" /\ begun.signer = None
      /\ begun.account = tabs[t].account
  <2>1. tabs[t] \in Tab /\ 0 \in 0..MaxNonces
    BY TabTypes, LoginBounds
  <2> QED BY <1>1, <2>1 DEF Tab
<1> HIDE DEF begun
<1>3. /\ new \in Tab /\ new.pc \in {"connect", "load"} /\ new.token = None
      /\ new.loginError = "none" /\ new.signer = None
      /\ new.account = tabs[t].account
      /\ new.pc = "load" => new.address = new.account /\ new.address \in Accounts
  BY <1>2, TabTypes DEF Tab, WithAddress
<1> HIDE DEF new
<1>4. tabs'[t] = new
  BY <1>1 DEF LoginInv
<1>5. TabInv(t)'
  BY <1>1, <1>3, <1>4 DEF TabInv, TabStands, SeenStands, RowStands
<1>6. disturbed' \in SUBSET Tabs /\ \A u \in Tabs \ {t} : u \in disturbed' <=> u \in disturbed
  BY <1>1, TabTypes
<1> QED BY <1>1, <1>3, <1>5, <1>6, QuietStep

\* The wallet answers with its selected account, or with none.
LEMMA LoginConnects ==
  ASSUME LoginInv, NEW t \in Tabs, NEW answer \in {wallet, None}, connect(t, answer)
  PROVE  LoginInv'
<1> DEFINE got == [tabs[t] EXCEPT !.account = IF answer = None THEN @ ELSE answer]
           new == WithAddress(got, answer)
<1>1. /\ tabs[t].pc = "connect"
      /\ tabs' = [tabs EXCEPT ![t] = new]
      /\ UNCHANGED <<wallet, nonces, issued, judged, disturbed>>
  <2>1. tabs' = [tabs EXCEPT ![t] = new]
    BY DEF connect
  <2>2. /\ tabs[t].pc = "connect"
        /\ UNCHANGED <<wallet, nonces, issued, judged, disturbed>>
    BY DEF connect
  <2> QED BY <2>1, <2>2
<1>0. /\ tabs[t].token = None /\ tabs[t].signer = None /\ tabs[t].loginError = "none"
      /\ tabs[t] \in Tab /\ wallet \in Accounts /\ None \notin Accounts
      /\ disturbed \in SUBSET Tabs
  BY <1>1, TabTypes DEF TabInv, TabStands
<1>2. /\ got \in Tab /\ got.pc = "connect" /\ got.token = None
      /\ got.loginError = "none" /\ got.signer = None
      /\ got.address = tabs[t].address
      /\ answer # None => got.account = answer
  BY <1>0, <1>1 DEF Tab
<1> HIDE DEF got
<1>3. CASE answer = None
  <2>1. new = Failed(got, "client")
    BY <1>3 DEF WithAddress
  <2>2. new \in Tab /\ new.pc = "idle" /\ new.token = None /\ new.loginError = "client"
    BY <1>2, <2>1, FailedTab
  <2> HIDE DEF new
  <2>3. tabs'[t] = new
    BY <1>1 DEF LoginInv
  <2>4. TabInv(t)'
    BY <2>2, <2>3 DEF TabInv, TabStands, SeenStands, RowStands
  <2> QED BY <1>0, <1>1, <2>2, <2>4, QuietStep
<1>4. CASE answer # None
  <2>1. answer \in Accounts /\ new = [got EXCEPT !.pc = "load", !.address = answer]
    BY <1>0, <1>4 DEF WithAddress
  <2>2. /\ new \in Tab /\ new.pc = "load" /\ new.token = None /\ new.signer = None
        /\ new.loginError = "none" /\ new.address = answer /\ new.account = answer
    BY <1>2, <1>4, <2>1 DEF Tab
  <2> HIDE DEF new
  <2>3. tabs'[t] = new
    BY <1>1 DEF LoginInv
  <2>4. TabInv(t)'
    BY <2>1, <2>2, <2>3 DEF TabInv, TabStands, SeenStands, RowStands
  <2> QED BY <1>0, <1>1, <2>2, <2>4, QuietStep
<1> QED BY <1>3, <1>4

\* A login that ends with an error of the client.
LEMMA LoginEnds ==
  ASSUME LoginInv, NEW t \in Tabs, LoginFails(t)
  PROVE  LoginInv'
<1> DEFINE new == Failed(tabs[t], "client")
<1>1. /\ tabs' = [tabs EXCEPT ![t] = new]
      /\ UNCHANGED <<wallet, nonces, issued, judged, disturbed>>
  BY DEF LoginFails
<1>2. /\ new \in Tab /\ new.pc = "idle" /\ new.token = None /\ new.loginError = "client"
  BY TabTypes, FailedTab
<1> HIDE DEF new
<1>3. tabs'[t] = new
  BY <1>1 DEF LoginInv
<1>4. TabInv(t)'
  BY <1>2, <1>3 DEF TabInv, TabStands, SeenStands, RowStands
<1> QED BY <1>1, <1>2, <1>4, TabTypes, QuietStep

\* The wallet signs with the account that is selected by now.
LEMMA LoginSigns ==
  ASSUME LoginInv, NEW t \in Tabs, signMessage(t)
  PROVE  LoginInv'
<1> DEFINE new == [tabs[t] EXCEPT !.pc = "check", !.signer = wallet]
<1>1. /\ tabs[t].pc = "sign"
      /\ tabs' = [tabs EXCEPT ![t] = new]
      /\ UNCHANGED <<wallet, nonces, issued, judged, disturbed>>
  BY TabTypes DEF signMessage, LoginInv, Tab
<1>2. /\ new \in Tab /\ new.pc = "check" /\ new.signer = wallet
      /\ new.token = tabs[t].token /\ new.address = tabs[t].address
      /\ new.account = tabs[t].account /\ new.nonce = tabs[t].nonce
      /\ new.loginError = tabs[t].loginError
  BY TabTypes DEF Tab
<1> HIDE DEF new
<1>3. tabs'[t] = new
  BY <1>1 DEF LoginInv
<1>4. TabInv(t)'
  BY <1>1, <1>2, <1>3, TabTypes DEF TabInv, TabStands, SeenStands, RowStands
<1> QED BY <1>1, <1>2, <1>4, TabTypes, QuietStep

\* Only a tab without a login under way has a token to give up.
LEMMA LoginLogsOut ==
  ASSUME LoginInv, NEW t \in Tabs, logout(t)
  PROVE  LoginInv'
<1> DEFINE new == [tabs[t] EXCEPT !.token = None]
<1>1. /\ tabs[t].token # None
      /\ tabs' = [tabs EXCEPT ![t] = new]
      /\ UNCHANGED <<wallet, nonces, issued, judged, disturbed>>
  BY TabTypes DEF logout, LoginInv, Tab
<1>2. /\ new \in Tab /\ new.pc = tabs[t].pc /\ new.signer = tabs[t].signer
      /\ new.token = None /\ new.address = tabs[t].address
      /\ new.loginError = tabs[t].loginError
  BY TabTypes DEF Tab
<1> HIDE DEF new
<1>3. tabs'[t] = new /\ tabs[t].pc = "idle"
  BY <1>1, TabTypes DEF LoginInv, TabInv, TabStands
<1>4. TabInv(t)'
  BY <1>1, <1>2, <1>3, TabTypes DEF TabInv, TabStands, SeenStands, RowStands
<1> QED BY <1>1, <1>2, <1>4, TabTypes, QuietStep

\* GET /auth/nonce loads the row.
LEMMA LoginLoads ==
  ASSUME LoginInv, NEW t \in Tabs, LoadForNonce(t)
  PROVE  LoginInv'
<1> DEFINE new == [tabs[t] EXCEPT !.pc = "issue", !.seen = nonces[tabs[t].address]]
<1>1. /\ tabs[t].pc = "load"
      /\ tabs' = [tabs EXCEPT ![t] = new]
      /\ UNCHANGED <<wallet, nonces, issued, judged, disturbed>>
  BY TabTypes DEF LoadForNonce, LoginInv, Tab
<1>0. /\ tabs[t].address \in Accounts /\ tabs[t].address = tabs[t].account
      /\ tabs[t].token = None /\ tabs[t].signer = None /\ tabs[t].loginError = "none"
      /\ nonces[tabs[t].address] \in Row \cup {None}
  BY <1>1, TabTypes DEF TabInv, TabStands
<1>2. /\ new \in Tab /\ new.pc = "issue" /\ new.seen = nonces[tabs[t].address]
      /\ new.token = tabs[t].token /\ new.address = tabs[t].address
      /\ new.account = tabs[t].account /\ new.signer = tabs[t].signer
      /\ new.loginError = tabs[t].loginError
  BY <1>0, TabTypes, ZenonT(60) DEF Tab
<1> HIDE DEF new
<1>3. tabs'[t] = new
  BY <1>1 DEF LoginInv
<1>4. TabInv(t)'
  BY <1>0, <1>1, <1>2, <1>3, TabTypes DEF TabInv, TabStands, SeenStands, RowStands
<1> QED BY <1>1, <1>2, <1>4, TabTypes, QuietStep

\* POST /auth/wallet refuses a spent or expired row, or holds on to it.
LEMMA LoginOpens ==
  ASSUME LoginInv, NEW t \in Tabs, OpenNonce(t)
  PROVE  LoginInv'
<1> DEFINE a == tabs[t].address
           record == nonces[a]
           bad == record = None \/ record.used \/ ~record.live
           new == IF bad THEN Failed(tabs[t], "refused")
                  ELSE [tabs[t] EXCEPT !.pc = "judge", !.seen = record]
<1>1. /\ tabs[t].pc = "check"
      /\ tabs' = [tabs EXCEPT ![t] = new]
      /\ UNCHANGED <<wallet, nonces, issued, judged, disturbed>>
  BY DEF OpenNonce
<1>0. /\ a \in Accounts /\ a = tabs[t].account
      /\ tabs[t].token = None /\ tabs[t].signer \in Accounts
      /\ tabs[t].loginError = "none"
      /\ record \in Row \cup {None} /\ None \notin Row /\ None \notin Accounts
      /\ t \notin disturbed => record # None /\ record.nonce = tabs[t].nonce
                                 /\ ~record.used /\ record.live
  BY <1>1, TabTypes DEF TabInv, TabStands, RowStands
<1>2. tabs'[t] = new
  BY <1>1 DEF LoginInv
<1>3. CASE bad
  <2>1. /\ new \in Tab /\ new.pc = "idle" /\ new.token = None
    BY <1>3, TabTypes, FailedTab
  <2>2. t \in disturbed
    BY <1>0, <1>3
  <2> HIDE DEF new
  <2>3. TabInv(t)'
    BY <1>1, <1>2, <2>1, <2>2 DEF TabInv, TabStands, SeenStands, RowStands
  <2> QED BY <1>1, <2>1, <2>3, TabTypes, QuietStep
<1>4. CASE ~bad
  <2>1. record \in Row /\ record # None
    BY <1>0, <1>4
  <2>2. /\ new \in Tab /\ new.pc = "judge" /\ new.seen = record
        /\ new.token = None /\ new.address = a /\ new.account = a
        /\ new.signer \in Accounts /\ new.nonce = tabs[t].nonce
        /\ new.loginError = "none"
    BY <1>0, <1>4, <2>1, TabTypes, ZenonT(60) DEF Tab
  <2>3. /\ record.nonce <= issued
        /\ \A b \in Accounts \ {a} : nonces[b] # None => nonces[b].nonce # record.nonce
    BY <1>0, <2>1 DEF LoginInv, NoncesStand
  <2> HIDE DEF new, bad
  <2>4. TabStands(t)'
    BY <1>0, <1>1, <1>2, <2>1, <2>2 DEF TabStands
  <2>5. SeenStands(t)'
    BY <1>1, <1>2, <2>2, <2>3 DEF SeenStands
  <2>6. RowStands(t)'
    BY <1>0, <1>1, <1>2, <2>2 DEF RowStands
  <2>7. TabInv(t)'
    BY <1>0, <1>2, <2>2, <2>4, <2>5, <2>6 DEF TabInv
  <2> QED BY <1>1, <2>2, <2>7, TabTypes, QuietStep
<1> QED BY <1>3, <1>4

\* A commit to the row of one address, which keeps its nonce or gets the next.
\* Tabs that use the row count as disturbed; for the others nothing changes.
LEMMA RowWritten ==
  ASSUME LoginInv, NEW a \in Accounts, NEW row \in Row, NEW S \in SUBSET Tabs,
         nonces' = [nonces EXCEPT ![a] = row],
         issued' \in 0..MaxNonces, issued' >= issued,
         \A n \in judged' : n <= issued',
         \/ nonces[a] # None /\ row.nonce = nonces[a].nonce
         \/ row.nonce = issued + 1 /\ issued' = issued + 1,
         \A u \in S :
           /\ tabs'[u] = tabs[u]
           /\ u \notin disturbed' =>
                /\ u \notin disturbed
                /\ tabs[u].address # a \/ tabs[u].pc \in {"idle", "connect"}
  PROVE  /\ nonces' \in [Accounts -> Row \cup {None}]
         /\ NoncesStand'
         /\ \A u \in S : TabInv(u)'
<1>0. /\ nonces \in [Accounts -> Row \cup {None}] /\ issued \in Nat /\ issued' \in Nat
      /\ None \notin Row /\ NoncesStand
      /\ \A r \in Row : r.nonce \in Nat
  BY NoneIsNoRow, LoginBounds DEF LoginInv, Row
<1>1. /\ nonces' \in [Accounts -> Row \cup {None}] /\ nonces'[a] = row /\ row # None
      /\ \A b \in Accounts \ {a} : nonces'[b] = nonces[b]
  BY <1>0
<1>2. \A b \in Accounts : /\ nonces[b] # None => nonces[b].nonce \in Nat
                                                /\ nonces[b].nonce <= issued
                          /\ b # a => nonces'[b] = nonces[b]
  BY <1>0, <1>1 DEF NoncesStand
<1>3. /\ row.nonce \in Nat /\ row.nonce <= issued'
      /\ \A b \in Accounts \ {a} : nonces[b] # None => nonces[b].nonce # row.nonce
  BY <1>0, <1>2 DEF NoncesStand
<1>4. NoncesStand'
  <2>1. \A b \in Accounts : nonces'[b] # None => nonces'[b].nonce <= issued'
    BY <1>0, <1>1, <1>2, <1>3
  <2>2. \A b, c \in Accounts : nonces'[b] # None /\ nonces'[c] # None
                                 /\ nonces'[b].nonce = nonces'[c].nonce => b = c
    BY <1>0, <1>1, <1>3 DEF NoncesStand
  <2> QED BY <2>1, <2>2 DEF NoncesStand
<1>5. ASSUME NEW u \in S PROVE TabInv(u)'
  <2>0. /\ TabInv(u) /\ tabs'[u] = tabs[u] /\ tabs[u] \in Tab
        /\ tabs[u].pc \notin {"idle", "connect"} => tabs[u].address \in Accounts
        /\ tabs[u].seen \in Row \cup {None}
    BY <1>5, TabTypes DEF TabInv
  <2>1. TabStands(u)'
    BY <1>1, <2>0 DEF TabInv, TabStands
  <2>2. SeenStands(u)'
    <3> SUFFICES ASSUME tabs[u].pc = "judge"
                 PROVE  /\ tabs[u].seen.nonce <= issued'
                        /\ \A b \in Accounts \ {tabs[u].address} :
                             nonces'[b] # None => nonces'[b].nonce # tabs[u].seen.nonce
      BY <2>0 DEF SeenStands
    <3>1. /\ tabs[u].seen.nonce \in Nat /\ tabs[u].seen.nonce <= issued
          /\ \A b \in Accounts \ {tabs[u].address} :
               nonces[b] # None => nonces[b].nonce # tabs[u].seen.nonce
      BY <1>0, <2>0 DEF TabInv, SeenStands, TabStands
    <3> QED BY <1>0, <1>1, <3>1
  <2>3. RowStands(u)'
    BY <1>1, <2>0 DEF TabInv, RowStands
  <2> QED BY <2>0, <2>1, <2>2, <2>3 DEF TabInv
<1> QED BY <1>1, <1>4, <1>5

\* The row's time runs out.
LEMMA RowExpires ==
  ASSUME LoginInv, NEW a \in Accounts, Expire(a)
  PROVE  LoginInv'
<1> DEFINE row == [nonces[a] EXCEPT !.live = FALSE]
           users == {t \in Tabs : tabs[t].address = a /\ tabs[t].pc # "idle"}
<1>0. /\ nonces \in [Accounts -> Row \cup {None}] /\ issued \in 0..MaxNonces
      /\ judged \in SUBSET (1..MaxNonces) /\ disturbed \in SUBSET Tabs
      /\ NoncesStand /\ JudgedNonceIsSpent
      /\ wallet \in Accounts /\ tabs \in [Tabs -> Tab]
      /\ None \notin Row
  BY NoneIsNoRow DEF LoginInv
<1>1. /\ nonces[a] # None
      /\ nonces' = [nonces EXCEPT ![a] = row]
      /\ disturbed' = disturbed \cup users
      /\ UNCHANGED <<wallet, issued, tabs, judged>>
  BY DEF Expire
<1>2. /\ row \in Row /\ row.nonce = nonces[a].nonce /\ row.used = nonces[a].used
  BY <1>0, <1>1 DEF Row
<1> HIDE DEF row
<1>3. /\ issued' \in 0..MaxNonces /\ issued' >= issued
      /\ \A n \in judged' : n <= issued'
  BY <1>0, <1>1, LoginBounds DEF NoncesStand
<1>4. \A u \in Tabs :
        /\ tabs'[u] = tabs[u]
        /\ u \notin disturbed' =>
             /\ u \notin disturbed
             /\ tabs[u].address # a \/ tabs[u].pc \in {"idle", "connect"}
  BY <1>1
<1>5. /\ nonces' \in [Accounts -> Row \cup {None}] /\ NoncesStand'
      /\ \A u \in Tabs : TabInv(u)'
  BY <1>0, <1>1, <1>2, <1>3, <1>4, RowWritten
<1>6. JudgedNonceIsSpent'
  BY <1>0, <1>1, <1>2 DEF JudgedNonceIsSpent
<1>7. disturbed' \in SUBSET Tabs
  BY <1>0, <1>1
<1> QED BY <1>0, <1>1, <1>5, <1>6, <1>7 DEF LoginInv

\* A nonce is issued, or the insertion finds a row that was not there before.
LEMMA NonceIssued ==
  ASSUME LoginInv, NEW t \in Tabs, NEW delivered \in BOOLEAN,
         generate_nonce(t, delivered)
  PROVE  LoginInv'
<1> DEFINE tab == tabs[t]
           a == tab.address
           next == issued + 1
<1>0. /\ tab \in Tab /\ tab.pc = "issue" /\ a \in Accounts /\ a = tab.account
      /\ tab.token = None /\ tab.signer = None /\ tab.loginError = "none"
      /\ nonces \in [Accounts -> Row \cup {None}]
      /\ nonces[a] \in Row \cup {None} /\ tab.seen \in Row \cup {None}
      /\ tab.seen # None => nonces[a] # None
      /\ t \notin disturbed => tab.seen = nonces[a]
      /\ None \notin Row /\ issued \in 0..MaxNonces /\ MaxNonces \in Nat
      /\ judged \in SUBSET (1..MaxNonces) /\ disturbed \in SUBSET Tabs
      /\ NoncesStand /\ JudgedNonceIsSpent
      /\ wallet \in Accounts /\ tabs \in [Tabs -> Tab]
  BY TabTypes, LoginBounds DEF LoginInv, generate_nonce, TabInv, TabStands, RowStands
<1>1. CASE tab.seen = None /\ nonces[a] # None
  <2> DEFINE new == Failed(tab, "refused")
  <2>1. /\ tabs' = [tabs EXCEPT ![t] = new]
        /\ UNCHANGED <<nonces, issued, disturbed, wallet, judged>>
    BY <1>1 DEF generate_nonce
  <2>2. new \in Tab /\ new.pc = "idle" /\ new.token = None
    BY <1>0, FailedTab
  <2>3. t \in disturbed
    BY <1>0, <1>1
  <2> HIDE DEF new
  <2>4. tabs'[t] = new
    BY <1>0, <2>1
  <2>5. TabInv(t)'
    BY <2>1, <2>2, <2>3, <2>4 DEF TabInv, TabStands, SeenStands, RowStands
  <2> QED BY <1>0, <2>1, <2>2, <2>5, QuietStep
<1>2. CASE ~(tab.seen = None /\ nonces[a] # None)
  <2> DEFINE row == IF tab.seen = None THEN [nonce |-> next, used |-> FALSE, live |-> TRUE]
                    ELSE Renewed(nonces[a], tab.seen, next)
             new == IF delivered
                    THEN [tab EXCEPT !.pc = "sign", !.nonce = next, !.seen = None]
                    ELSE Failed(tab, "client")
  <2>1. /\ issued < MaxNonces /\ issued' = next
        /\ nonces' = [nonces EXCEPT ![a] = row]
        /\ disturbed' = disturbed \cup OthersOn(a, t)
        /\ tabs' = [tabs EXCEPT ![t] = new]
        /\ UNCHANGED <<wallet, judged>>
    BY <1>2 DEF generate_nonce
  <2>2. /\ next \in 1..MaxNonces /\ issued' \in 0..MaxNonces /\ issued' >= issued
        /\ \A n \in judged' : n <= issued'
    <3>1. \A n \in judged : n \in Nat /\ n <= issued
      <4>1. NoncesStand /\ \A n \in judged : n \in 1..MaxNonces
        BY <1>0
      <4> QED BY <1>0, <4>1 DEF NoncesStand
    <3> QED BY <1>0, <2>1, <3>1
  <2>3. /\ row \in Row /\ row.nonce = next /\ row.live
        /\ t \notin disturbed => ~row.used
    <3> HIDE DEF next
    <3>1. CASE tab.seen = None
      BY <2>2, <3>1 DEF Row
    <3>2. CASE tab.seen # None
      <4>1. tab.seen \in Row /\ nonces[a] \in Row
        BY <1>0, <3>2
      <4>2. row = [nonces[a] EXCEPT !.nonce = next, !.live = TRUE,
                                    !.used = nonces[a].used /\ ~tab.seen.used]
        BY <3>2 DEF Renewed
      <4>3. tab.seen.used \in BOOLEAN /\ nonces[a].used \in BOOLEAN
        BY <4>1 DEF Row
      <4> QED BY <1>0, <2>2, <4>1, <4>2, <4>3 DEF Row
    <3> QED BY <3>1, <3>2
  <2> HIDE DEF row
  <2>4. /\ new \in Tab /\ new.token = None /\ new.pc \in {"sign", "idle"}
        /\ new.loginError \in {"none", "client"}
        /\ new.pc = "sign" => /\ new.nonce = next /\ new.loginError = "none"
                              /\ new.address = a /\ new.account = a
                              /\ new.signer = None
    <3>1. CASE delivered
      <4> HIDE DEF next, tab
      <4>1. new = [tab EXCEPT !.pc = "sign", !.nonce = next, !.seen = None]
        BY <3>1
      <4>2. next \in 0..MaxNonces
        BY <2>2
      <4> HIDE DEF new
      <4>3. /\ new \in Tab /\ new.token = tab.token /\ new.pc = "sign"
            /\ new.loginError = tab.loginError /\ new.nonce = next
            /\ new.address = tab.address /\ new.account = tab.account
            /\ new.signer = tab.signer
        BY <1>0, <4>1, <4>2 DEF Tab
      <4> QED BY <1>0, <4>3
    <3>2. CASE ~delivered
      BY <1>0, <3>2, FailedTab
    <3> QED BY <3>1, <3>2
  <2> HIDE DEF new
  <2>5. tabs' \in [Tabs -> Tab] /\ tabs'[t] = new /\ disturbed' \in SUBSET Tabs
    BY <1>0, <2>1, <2>4 DEF OthersOn
  <2>6. /\ nonces' \in [Accounts -> Row \cup {None}] /\ NoncesStand'
        /\ \A u \in Tabs \ {t} : TabInv(u)'
    <3>1. \A u \in Tabs \ {t} :
            /\ tabs'[u] = tabs[u]
            /\ u \notin disturbed' =>
                 /\ u \notin disturbed
                 /\ tabs[u].address # a \/ tabs[u].pc \in {"idle", "connect"}
      BY <1>0, <2>1 DEF OthersOn
    <3> HIDE DEF a, tab
    <3> QED BY <1>0, <2>1, <2>2, <2>3, <3>1, RowWritten, ZenonT(60)
  <2>7. TabInv(t)'
    <3>1. nonces'[a] = row /\ row # None
      BY <1>0, <2>1, <2>3
    <3>2. t \notin disturbed' => t \notin disturbed
      BY <2>1
    <3>3. TabStands(t)' /\ SeenStands(t)'
      BY <2>4, <2>5 DEF TabStands, SeenStands
    <3>4. RowStands(t)'
      BY <2>3, <2>4, <2>5, <3>1, <3>2 DEF RowStands
    <3> QED BY <1>0, <2>4, <2>5, <3>3, <3>4 DEF TabInv
  <2>8. JudgedNonceIsSpent'
    <3>1. next \notin judged
      BY <1>0 DEF NoncesStand
    <3> QED BY <1>0, <2>1, <2>3, <3>1 DEF JudgedNonceIsSpent
  <2> QED BY <1>0, <2>1, <2>2, <2>5, <2>6, <2>7, <2>8 DEF LoginInv
<1> QED BY <1>1, <1>2

\* The nonce is spent and the signature judged.
LEMMA NonceConsumed ==
  ASSUME LoginInv, NEW t \in Tabs, NEW delivered \in BOOLEAN,
         verify_signature_and_consume_nonce(t, delivered)
  PROVE  LoginInv'
<1> DEFINE tab == tabs[t]
           a == tab.address
           row == Consumed(nonces[a], tab)
           new == IF ~SignedByAddress(tab) THEN Failed(tab, "refused")
                  ELSE IF delivered THEN [Ended(tab) EXCEPT !.token = a]
                  ELSE Failed(tab, "client")
<1>0. /\ tab \in Tab /\ tab.pc = "judge" /\ a \in Accounts /\ a = tab.account
      /\ tab.token = None /\ tab.signer \in Accounts /\ tab.loginError = "none"
      /\ nonces \in [Accounts -> Row \cup {None}]
      /\ nonces[a] \in Row /\ nonces[a] # None /\ tab.seen \in Row
      /\ t \notin disturbed => tab.seen.nonce = tab.nonce
      /\ None \notin Row /\ None \notin Accounts
      /\ issued \in 0..MaxNonces /\ MaxNonces \in Nat
      /\ judged \in SUBSET (1..MaxNonces) /\ disturbed \in SUBSET Tabs
      /\ NoncesStand /\ JudgedNonceIsSpent
      /\ wallet \in Accounts /\ tabs \in [Tabs -> Tab]
      /\ tab.seen.nonce <= issued
      /\ \A b \in Accounts \ {a} : nonces[b] # None => nonces[b].nonce # tab.seen.nonce
  BY TabTypes, LoginBounds
  DEF LoginInv, verify_signature_and_consume_nonce, TabInv, TabStands, RowStands, SeenStands
<1>1. /\ nonces' = [nonces EXCEPT ![a] = row]
      /\ judged' = judged \cup {tab.seen.nonce}
      /\ disturbed' = disturbed \cup OthersOn(a, t)
      /\ tabs' = [tabs EXCEPT ![t] = new]
      /\ UNCHANGED <<wallet, issued>>
  BY DEF verify_signature_and_consume_nonce
<1>2. /\ row \in Row /\ row.nonce = nonces[a].nonce /\ row.used
  BY <1>0 DEF Consumed, Row
<1>3. /\ new \in Tab /\ new.pc = "idle" /\ new.account = a /\ new.address = a
      /\ new.token # None => new.token = a /\ new.signer = a
      /\ new.loginError = "refused" /\ new.signer \in {a, None} => t \in disturbed
  <2>1. CASE ~SignedByAddress(tab)
    <3>1. new = Failed(tab, "refused")
      BY <2>1
    <3>2. new.signer \in {a, None} => t \in disturbed
      BY <1>0, <2>1, <3>1, FailedTab DEF SignedByAddress
    <3> QED BY <1>0, <3>1, <3>2, FailedTab, ZenonT(60)
  <2>2. CASE SignedByAddress(tab) /\ delivered
    BY <1>0, <2>2 DEF SignedByAddress, Ended, Tab
  <2>3. CASE SignedByAddress(tab) /\ ~delivered
    BY <1>0, <2>3, FailedTab
  <2> QED BY <2>1, <2>2, <2>3
<1> HIDE DEF row, new
<1>4. tabs' \in [Tabs -> Tab] /\ tabs'[t] = new /\ disturbed' \in SUBSET Tabs
  BY <1>0, <1>1, <1>3 DEF OthersOn
<1>5. /\ judged' \in SUBSET (1..MaxNonces) /\ \A n \in judged' : n <= issued'
      /\ issued' \in 0..MaxNonces /\ issued' >= issued
  <2>1. tab.seen.nonce \in 1..MaxNonces
    BY <1>0 DEF Row
  <2>2. \A n \in judged' : n \in 1..MaxNonces /\ n <= issued
    <3>1. \A n \in judged : n \in 1..MaxNonces /\ n <= issued
      BY <1>0 DEF NoncesStand
    <3> QED BY <1>0, <1>1, <2>1, <3>1
  <2>3. issued' = issued /\ issued \in 0..MaxNonces /\ issued >= issued
    BY <1>0, <1>1
  <2> QED BY <2>2, <2>3
<1>6. /\ nonces' \in [Accounts -> Row \cup {None}] /\ NoncesStand'
      /\ \A u \in Tabs \ {t} : TabInv(u)'
  <2>1. \A u \in Tabs \ {t} :
          /\ tabs'[u] = tabs[u]
          /\ u \notin disturbed' =>
               /\ u \notin disturbed
               /\ tabs[u].address # a \/ tabs[u].pc \in {"idle", "connect"}
    BY <1>0, <1>1 DEF OthersOn
  <2>2. a \in Accounts /\ nonces[a] # None
    BY <1>0
  <2> HIDE DEF a, tab
  <2> QED BY <1>1, <1>2, <1>5, <2>1, <2>2, RowWritten
<1>7. TabInv(t)'
  <2>1. TabStands(t)' /\ SeenStands(t)' /\ RowStands(t)'
    BY <1>3, <1>4 DEF TabStands, SeenStands, RowStands
  <2>2. t \in disturbed => t \in disturbed'
    BY <1>1
  <2> QED BY <1>3, <1>4, <2>1, <2>2 DEF TabInv
<1>8. JudgedNonceIsSpent'
  <2>1. nonces'[a] = row /\ \A b \in Accounts \ {a} : nonces'[b] = nonces[b]
    BY <1>0, <1>1
  <2> QED BY <1>0, <1>1, <1>2, <2>1 DEF JudgedNonceIsSpent
<1> QED BY <1>0, <1>1, <1>4, <1>5, <1>6, <1>7, <1>8 DEF LoginInv

\* No tab has a token or a login under way, and no nonce is out.
LEMMA LoginStarts == LoginInit => LoginInv
<1> SUFFICES ASSUME LoginInit PROVE LoginInv
  OBVIOUS
<1>1. /\ wallet \in Accounts
      /\ nonces \in [Accounts -> Row \cup {None}] /\ \A a \in Accounts : nonces[a] = None
      /\ issued = 0 /\ issued \in 0..MaxNonces
      /\ judged = {} /\ disturbed = {}
  BY LoginBounds DEF LoginInit
<1>2. /\ NewTab \in Tab /\ NewTab.pc = "idle" /\ NewTab.token = None
      /\ NewTab.loginError = "none"
  BY LoginBounds DEF NewTab, Tab
<1>3. tabs \in [Tabs -> Tab] /\ \A t \in Tabs : tabs[t] = NewTab
  BY <1>2 DEF LoginInit
<1>4. NoncesStand /\ JudgedNonceIsSpent
  BY <1>1 DEF NoncesStand, JudgedNonceIsSpent
<1>5. \A t \in Tabs : TabInv(t)
  BY <1>2, <1>3 DEF TabInv, TabStands, SeenStands, RowStands
<1> QED BY <1>1, <1>3, <1>4, <1>5 DEF LoginInv

\* Every step of the tabs, the wallet and the two endpoints preserves the invariant.
LEMMA LoginMovesOn ==
  ASSUME LoginInv, LoginMoves \/ UNCHANGED loginVars
  PROVE  LoginInv'
<1>1. ASSUME NEW t \in Tabs, LoginStep(t) \/ logout(t) PROVE LoginInv'
  BY <1>1, LoginBegins, LoginConnects, LoginSigns, LoginEnds, LoginLogsOut, LoginLoads,
     LoginOpens, NonceIssued, NonceConsumed DEF LoginStep
<1>2. ASSUME wallet' \in Accounts, UNCHANGED <<nonces, issued, tabs, judged, disturbed>>
      PROVE  LoginInv'
  BY <1>2
  DEF LoginInv, NoncesStand, JudgedNonceIsSpent, TabInv, TabStands, SeenStands, RowStands
<1>3. ASSUME NEW a \in Accounts, SwitchAccount(a) PROVE LoginInv'
  BY <1>2, <1>3 DEF SwitchAccount
<1>4. CASE UNCHANGED loginVars
  BY <1>2, <1>4 DEF loginVars, LoginInv
<1> QED BY <1>1, <1>3, <1>4, RowExpires DEF LoginMoves

-----------------------------------------------------------------------------
(* The claim form *)

\* A root carries the salt of the attempt that made it, so a root in a row or on
\* the chain says how far its attempt has come.
RootsStand ==
  /\ \A j \in Attempts : attempts[j].pc # "new" =>
       attempts[j].root \in Root /\ attempts[j].root.salt = j
  /\ \A i \in 1..Len(rows) :
       /\ rows[i].salt \in Attempts
       /\ attempts[rows[i].salt].pc \notin {"new", "creating"}
  /\ \A i \in 1..Len(chain) :
       /\ chain[i].salt \in Attempts
       /\ attempts[chain[i].salt].pc \in {"done", "failed"}
       /\ \E k \in 1..Len(rows) : rows[k] = chain[i]
  /\ \A j \in Attempts : attempts[j].pc = "submitting-onchain" =>
       \E k \in 1..Len(rows) : rows[k] = attempts[j].root

Unrepeated(s) == \A i, k \in 1..Len(s) : s[i] = s[k] => i = k

FilingInv ==
  /\ attempts \in [Attempts -> Attempt]
  /\ rows \in Seq(Root) /\ chain \in Seq(Root)
  /\ RootsStand
  /\ Unrepeated(rows) /\ Unrepeated(chain)

\* A new element does not repeat a sequence that does not have it.
LEMMA AppendUnrepeated ==
  ASSUME NEW S, NEW s \in Seq(S), NEW e \in S, Unrepeated(s),
         \A i \in 1..Len(s) : s[i] # e
  PROVE  /\ Append(s, e) \in Seq(S) /\ Unrepeated(Append(s, e))
         /\ Len(Append(s, e)) = Len(s) + 1 /\ Len(s) \in Nat
         /\ Append(s, e)[Len(s) + 1] = e
         /\ \A i \in 1..Len(s) : Append(s, e)[i] = s[i]
<1>1. /\ Append(s, e) \in Seq(S) /\ Len(Append(s, e)) = Len(s) + 1 /\ Len(s) \in Nat
      /\ Append(s, e)[Len(s) + 1] = e
      /\ \A i \in 1..Len(s) : Append(s, e)[i] = s[i]
  BY AppendProperties
<1>2. ASSUME NEW i \in 1..(Len(s) + 1), NEW k \in 1..(Len(s) + 1),
             Append(s, e)[i] = Append(s, e)[k]
      PROVE  i = k
  <2>1. /\ i \in 1..Len(s) \/ i = Len(s) + 1
        /\ k \in 1..Len(s) \/ k = Len(s) + 1
    BY <1>1
  <2> QED BY <1>1, <1>2, <2>1 DEF Unrepeated
<1> QED BY <1>1, <1>2 DEF Unrepeated

\* No attempt has begun.
LEMMA FilingStarts == Init => FilingInv
<1> SUFFICES ASSUME Init PROVE FilingInv
  OBVIOUS
<1>1. /\ attempts \in [Attempts -> Attempt] /\ \A j \in Attempts : attempts[j].pc = "new"
      /\ rows = << >> /\ chain = << >>
  BY DEF Init, Attempt
<1>2. rows \in Seq(Root) /\ chain \in Seq(Root) /\ Len(rows) = 0 /\ Len(chain) = 0
  BY <1>1
<1> QED BY <1>1, <1>2 DEF FilingInv, RootsStand, Unrepeated

\* One attempt moves on; the rows and the chain may get its root.
LEMMA FilingNext ==
  ASSUME FilingInv, [Next]_vars
  PROVE  FilingInv'
<1>0. /\ attempts \in [Attempts -> Attempt] /\ rows \in Seq(Root) /\ chain \in Seq(Root)
      /\ RootsStand /\ Unrepeated(rows) /\ Unrepeated(chain)
      /\ Len(rows) \in Nat /\ Len(chain) \in Nat
  BY DEF FilingInv
<1>1. ASSUME NEW j \in Attempts, NEW text \in Texts, handleSubmit(j, text)
      PROVE  FilingInv'
  <2> DEFINE new == [pc |-> "creating", root |-> [salt |-> j, text |-> text]]
  <2>1. /\ attempts[j].pc = "new" /\ attempts' = [attempts EXCEPT ![j] = new]
        /\ UNCHANGED <<rows, chain>>
    BY <1>1 DEF handleSubmit, placeholderMerkleRoot, generateClaimSalt
  <2>2. /\ new \in Attempt /\ new.pc = "creating" /\ new.root \in Root
        /\ new.root.salt = j
    BY DEF Attempt, Root
  <2> HIDE DEF new
  <2>3. /\ attempts' \in [Attempts -> Attempt] /\ attempts'[j] = new
        /\ \A k \in Attempts : k # j => attempts'[k] = attempts[k]
    BY <1>0, <2>1, <2>2
  <2>4. RootsStand'
    BY <1>0, <2>1, <2>2, <2>3 DEF RootsStand
  <2> QED BY <1>0, <2>1, <2>3, <2>4 DEF FilingInv, Unrepeated
<1>2. ASSUME NEW j \in Attempts, NEW delivered \in BOOLEAN, createClaim(j, delivered)
      PROVE  FilingInv'
  <2> DEFINE root == attempts[j].root
             new == IF delivered THEN "submitting-onchain" ELSE "failed"
  <2>1. /\ attempts[j].pc = "creating" /\ rows' = Append(rows, root)
        /\ attempts' = [attempts EXCEPT ![j].pc = new]
        /\ chain' = chain
    BY <1>2 DEF createClaim
  <2>2. root \in Root /\ root.salt = j
    BY <1>0, <2>1 DEF RootsStand
  <2>3. new \in {"submitting-onchain", "failed"}
    OBVIOUS
  <2> HIDE DEF new
  <2>4. /\ attempts' \in [Attempts -> Attempt]
        /\ attempts'[j].pc = new /\ attempts'[j].root = root
        /\ \A k \in Attempts : k # j => attempts'[k] = attempts[k]
    BY <1>0, <2>1, <2>3 DEF Attempt
  <2>5. \A i \in 1..Len(rows) : rows[i] # root
    BY <1>0, <2>1, <2>2 DEF RootsStand
  <2> HIDE DEF root
  <2>6. /\ rows' \in Seq(Root) /\ Unrepeated(rows') /\ Len(rows') = Len(rows) + 1
        /\ rows'[Len(rows) + 1] = root
        /\ \A i \in 1..Len(rows) : rows'[i] = rows[i]
    BY <1>0, <2>1, <2>2, <2>5, AppendUnrepeated
  <2>7. \A i \in 1..Len(rows') : i \in 1..Len(rows) \/ i = Len(rows) + 1
    BY <1>0, <2>6
  <2>8. /\ Len(rows) + 1 \in 1..Len(rows')
        /\ \A i \in 1..Len(rows) : i \in 1..Len(rows')
    BY <1>0, <2>6
  <2>9. RootsStand'
    <3>1. \A k \in Attempts : attempts'[k].pc # "new" =>
            attempts'[k].root \in Root /\ attempts'[k].root.salt = k
      <4>1. \A k \in Attempts : attempts[k].pc # "new" =>
              attempts[k].root \in Root /\ attempts[k].root.salt = k
        BY <1>0 DEF RootsStand
      <4> QED BY <2>2, <2>4, <4>1
    <3>2. \A i \in 1..Len(rows') : /\ rows'[i].salt \in Attempts
                                   /\ attempts'[rows'[i].salt].pc \notin {"new", "creating"}
      <4>1. ASSUME NEW i \in 1..Len(rows)
            PROVE  /\ rows[i].salt \in Attempts
                   /\ attempts'[rows[i].salt].pc \notin {"new", "creating"}
        BY <1>0, <2>3, <2>4 DEF RootsStand
      <4>2. /\ root.salt \in Attempts
            /\ attempts'[root.salt].pc \notin {"new", "creating"}
        BY <2>2, <2>3, <2>4
      <4> QED BY <2>6, <2>7, <4>1, <4>2
    <3>3. \A i \in 1..Len(chain) :
            /\ chain[i].salt \in Attempts
            /\ attempts'[chain[i].salt].pc \in {"done", "failed"}
            /\ \E k \in 1..Len(rows') : rows'[k] = chain[i]
      <4> SUFFICES ASSUME NEW i \in 1..Len(chain)
                   PROVE  /\ chain[i].salt \in Attempts
                          /\ attempts'[chain[i].salt].pc \in {"done", "failed"}
                          /\ \E k \in 1..Len(rows') : rows'[k] = chain[i]
        OBVIOUS
      <4>1. /\ chain[i].salt \in Attempts
            /\ attempts[chain[i].salt].pc \in {"done", "failed"}
        BY <1>0 DEF RootsStand
      <4>2. PICK k \in 1..Len(rows) : rows[k] = chain[i]
        BY <1>0 DEF RootsStand
      <4>3. chain[i].salt # j
        BY <2>1, <4>1
      <4> QED BY <2>4, <2>6, <2>8, <4>1, <4>2, <4>3
    <3>4. \A k \in Attempts : attempts'[k].pc = "submitting-onchain" =>
            \E i \in 1..Len(rows') : rows'[i] = attempts'[k].root
      <4> SUFFICES ASSUME NEW k \in Attempts, attempts'[k].pc = "submitting-onchain"
                   PROVE  \E i \in 1..Len(rows') : rows'[i] = attempts'[k].root
        OBVIOUS
      <4>1. CASE k = j
        BY <2>4, <2>6, <2>8, <4>1
      <4>2. CASE k # j
        <5>1. PICK i \in 1..Len(rows) : rows[i] = attempts[k].root
          BY <1>0, <2>4, <4>2 DEF RootsStand
        <5> QED BY <2>4, <2>6, <2>8, <4>2, <5>1
      <4> QED BY <4>1, <4>2
    <3> QED BY <2>1, <3>1, <3>2, <3>3, <3>4 DEF RootsStand
  <2>10. Unrepeated(rows)' /\ Unrepeated(chain)'
    BY <1>0, <2>1, <2>6 DEF Unrepeated
  <2> QED BY <1>0, <2>1, <2>4, <2>6, <2>9, <2>10 DEF FilingInv
<1>3. ASSUME NEW j \in Attempts, NEW confirmed \in BOOLEAN,
             submitClaimOnChain(j, confirmed)
      PROVE  FilingInv'
  <2> DEFINE root == attempts[j].root
             new == IF confirmed THEN "done" ELSE "failed"
  <2>1. /\ attempts[j].pc = "submitting-onchain" /\ chain' = Append(chain, root)
        /\ attempts' = [attempts EXCEPT ![j].pc = new]
        /\ rows' = rows
    BY <1>3 DEF submitClaimOnChain
  <2>2. root \in Root /\ root.salt = j /\ \E k \in 1..Len(rows) : rows[k] = root
    BY <1>0, <2>1 DEF RootsStand
  <2>3. new \in {"done", "failed"}
    OBVIOUS
  <2> HIDE DEF new
  <2>4. /\ attempts' \in [Attempts -> Attempt]
        /\ attempts'[j].pc = new /\ attempts'[j].root = root
        /\ \A k \in Attempts : k # j => attempts'[k] = attempts[k]
    BY <1>0, <2>1, <2>3 DEF Attempt
  <2>5. \A i \in 1..Len(chain) : chain[i] # root
    BY <1>0, <2>1, <2>2 DEF RootsStand
  <2> HIDE DEF root
  <2>6. /\ chain' \in Seq(Root) /\ Unrepeated(chain') /\ Len(chain') = Len(chain) + 1
        /\ chain'[Len(chain) + 1] = root
        /\ \A i \in 1..Len(chain) : chain'[i] = chain[i]
    BY <1>0, <2>1, <2>2, <2>5, AppendUnrepeated
  <2>7. \A i \in 1..Len(chain') : i \in 1..Len(chain) \/ i = Len(chain) + 1
    BY <1>0, <2>6
  <2>8. RootsStand'
    <3>1. \A k \in Attempts : attempts'[k].pc # "new" =>
            attempts'[k].root \in Root /\ attempts'[k].root.salt = k
      <4>1. \A k \in Attempts : attempts[k].pc # "new" =>
              attempts[k].root \in Root /\ attempts[k].root.salt = k
        BY <1>0 DEF RootsStand
      <4> QED BY <2>2, <2>4, <4>1
    <3>2. \A i \in 1..Len(rows) : /\ rows[i].salt \in Attempts
                                  /\ attempts'[rows[i].salt].pc \notin {"new", "creating"}
      BY <1>0, <2>2, <2>3, <2>4 DEF RootsStand
    <3>3. \A i \in 1..Len(chain') :
            /\ chain'[i].salt \in Attempts
            /\ attempts'[chain'[i].salt].pc \in {"done", "failed"}
            /\ \E k \in 1..Len(rows) : rows[k] = chain'[i]
      <4>1. ASSUME NEW i \in 1..Len(chain)
            PROVE  /\ chain[i].salt \in Attempts
                   /\ attempts'[chain[i].salt].pc \in {"done", "failed"}
                   /\ \E k \in 1..Len(rows) : rows[k] = chain[i]
        BY <1>0, <2>3, <2>4 DEF RootsStand
      <4>2. /\ root.salt \in Attempts
            /\ attempts'[root.salt].pc \in {"done", "failed"}
            /\ \E k \in 1..Len(rows) : rows[k] = root
        BY <2>2, <2>3, <2>4
      <4> QED BY <2>6, <2>7, <4>1, <4>2
    <3>4. \A k \in Attempts : attempts'[k].pc = "submitting-onchain" =>
            \E i \in 1..Len(rows) : rows[i] = attempts'[k].root
      <4>1. SUFFICES ASSUME NEW k \in Attempts,
                            attempts'[k].pc = "submitting-onchain"
                     PROVE  attempts'[k].root = attempts[k].root
                            /\ attempts[k].pc = "submitting-onchain"
        BY <1>0 DEF RootsStand
      <4>2. k # j
        BY <2>3, <2>4, <4>1
      <4> QED BY <2>4, <4>1, <4>2
    <3> QED BY <2>1, <3>1, <3>2, <3>3, <3>4, SMTT(30) DEF RootsStand
  <2>9. Unrepeated(rows)' /\ Unrepeated(chain)'
    BY <1>0, <2>1, <2>6 DEF Unrepeated
  <2> QED BY <1>0, <2>1, <2>4, <2>6, <2>8, <2>9 DEF FilingInv
<1>4. ASSUME NEW j \in Attempts, AttemptFails(j) PROVE FilingInv'
  <2>1. /\ attempts[j].pc \in {"creating", "submitting-onchain"}
        /\ attempts' = [attempts EXCEPT ![j].pc = "failed"]
        /\ UNCHANGED <<rows, chain>>
    BY <1>4 DEF AttemptFails
  <2>2. /\ attempts' \in [Attempts -> Attempt]
        /\ attempts'[j].pc = "failed" /\ attempts'[j].root = attempts[j].root
        /\ \A k \in Attempts : k # j => attempts'[k] = attempts[k]
    BY <1>0, <2>1 DEF Attempt
  <2>3. RootsStand'
    BY <1>0, <2>1, <2>2 DEF RootsStand
  <2> QED BY <1>0, <2>1, <2>2, <2>3 DEF FilingInv, Unrepeated
<1>5. CASE UNCHANGED <<attempts, rows, chain>>
  BY <1>0, <1>5 DEF FilingInv, RootsStand, Unrepeated
<1>6. \/ UNCHANGED <<attempts, rows, chain>>
      \/ \E j \in Attempts, text \in Texts : handleSubmit(j, text)
      \/ \E j \in Attempts, delivered \in BOOLEAN : createClaim(j, delivered)
      \/ \E j \in Attempts, confirmed \in BOOLEAN : submitClaimOnChain(j, confirmed)
      \/ \E j \in Attempts : AttemptFails(j)
  BY DEF Next, vars, pageVars, claimVars, openPage, LogoutOfPage, handleSearch,
         SearchAnswered, SearchFails, handleTriggerVerification, Refreshed, TriggerFails,
         ReadStatus, StatusArrives, StatusFails, getPolicyCatalog, handleSubscribe,
         handlePay, Begin, approve, pay, PaymentFails, ChangePrice, PremiumLapses
<1> QED BY <1>1, <1>2, <1>3, <1>4, <1>5, <1>6
-----------------------------------------------------------------------------
(* The claim page *)

\* The shown claim goes with a key of its own, or was asked for under one.
LookupStands ==
  /\ key <= Len(madeFor)
  /\ \A s \in sent : s.key <= Len(madeFor)
  /\ trigger # None => trigger \in sent /\ key # 0
  /\ claim # None =>
       /\ key # 0
       /\ \/ madeFor[key] = claim.id
          \/ \E r \in sent : r.id = claim.id /\ madeFor[r.key] = claim.id

LookupInv ==
  /\ claim \in [id : Claims, submitted : BOOLEAN] \cup {None}
  /\ key \in 0..MaxKeys /\ searches \in SUBSET Claims
  /\ trigger \in [id : Claims, key : 1..MaxKeys] \cup {None}
  /\ madeFor \in Seq(Claims) /\ Len(madeFor) <= MaxKeys
  /\ sent \in SUBSET [id : Claims, key : 1..MaxKeys]
  /\ LookupStands
  /\ OwnKeyFirst

\* No claim is shown and no key is made.
LEMMA LookupStarts == Init => LookupInv
<1> SUFFICES ASSUME Init PROVE LookupInv
  OBVIOUS
<1>1. /\ claim = None /\ key = 0 /\ searches = {} /\ trigger = None
      /\ madeFor = << >> /\ sent = {}
  BY DEF Init
<1>2. madeFor \in Seq(Claims) /\ Len(madeFor) = 0
  BY <1>1
<1> QED BY <1>1, <1>2, PageBounds DEF LookupInv, LookupStands, OwnKeyFirst

\* Lookups, their answers in any order, requests and refreshes keep the keys in order.
LEMMA LookupNext ==
  ASSUME LookupInv, [Next]_vars
  PROVE  LookupInv'
<1>0. /\ claim \in [id : Claims, submitted : BOOLEAN] \cup {None}
      /\ key \in 0..MaxKeys /\ searches \in SUBSET Claims
      /\ trigger \in [id : Claims, key : 1..MaxKeys] \cup {None}
      /\ madeFor \in Seq(Claims) /\ Len(madeFor) <= MaxKeys /\ Len(madeFor) \in Nat
      /\ sent \in SUBSET [id : Claims, key : 1..MaxKeys]
      /\ \A s \in sent : s.id \in Claims /\ s.key \in 1..MaxKeys
      /\ LookupStands /\ OwnKeyFirst
      /\ MaxKeys \in Nat
  BY PageBounds DEF LookupInv
\* The claim is put away, or the request, or a lookup begins or ends.
<1>1. ASSUME UNCHANGED <<madeFor, sent>>, searches' \in SUBSET Claims,
             key' = key \/ (key' = 0 /\ claim' = None /\ trigger' = None),
             claim' \in {claim, None}, trigger' \in {trigger, None}
      PROVE  LookupInv'
  <2>1. claim' # None => claim' = claim /\ key' = key
    BY <1>1
  <2>2. trigger' # None => trigger' = trigger /\ key' = key
    BY <1>1
  <2>3. key' \in 0..MaxKeys /\ key' <= Len(madeFor)
    BY <1>0, <1>1 DEF LookupStands
  <2>4. LookupStands'
    BY <1>0, <1>1, <2>1, <2>2, <2>3 DEF LookupStands
  <2>5. OwnKeyFirst'
    BY <1>0, <1>1 DEF OwnKeyFirst
  <2> QED BY <1>0, <1>1, <2>3, <2>4, <2>5 DEF LookupInv
<1>2. ASSUME NEW id \in Claims, NEW submitted \in BOOLEAN, SearchAnswered(id, submitted)
      PROVE  LookupInv'
  <2> DEFINE new == [id |-> id, submitted |-> submitted]
  <2>1. /\ Len(madeFor) < MaxKeys /\ searches' = searches \ {id}
        /\ claim' = new /\ key' = Len(madeFor) + 1 /\ madeFor' = Append(madeFor, id)
        /\ UNCHANGED <<trigger, sent>>
    BY <1>2 DEF SearchAnswered, NextKey
  <2>2. new \in [id : Claims, submitted : BOOLEAN] /\ new.id = id
    OBVIOUS
  <2> HIDE DEF new
  <2>3. /\ madeFor' \in Seq(Claims) /\ Len(madeFor') = Len(madeFor) + 1
        /\ madeFor'[Len(madeFor) + 1] = id
        /\ \A i \in 1..Len(madeFor) : madeFor'[i] = madeFor[i]
    BY <1>0, <2>1, AppendProperties
  <2>4. key' \in 0..MaxKeys /\ key' # 0 /\ key' <= Len(madeFor') /\ Len(madeFor') <= MaxKeys
    BY <1>0, <2>1, <2>3
  <2>5. \A s \in sent : /\ s.key \in 1..Len(madeFor) /\ s.key <= Len(madeFor')
                        /\ madeFor'[s.key] = madeFor[s.key]
    BY <1>0, <2>3 DEF LookupStands
  <2>6. LookupStands'
    BY <1>0, <2>1, <2>2, <2>3, <2>4, <2>5 DEF LookupStands
  <2>7. OwnKeyFirst'
    BY <1>0, <2>1, <2>5 DEF OwnKeyFirst
  <2> QED BY <1>0, <2>1, <2>2, <2>3, <2>4, <2>6, <2>7 DEF LookupInv
<1>3. ASSUME handleTriggerVerification PROVE LookupInv'
  <2> DEFINE new == [id |-> claim.id, key |-> key]
  <2>1. /\ claim # None /\ trigger = None /\ trigger' = new /\ sent' = sent \cup {new}
        /\ UNCHANGED <<claim, key, searches, madeFor>>
    BY <1>3 DEF handleTriggerVerification
  <2>2. /\ key # 0 /\ key <= Len(madeFor)
        /\ \/ madeFor[key] = claim.id
           \/ \E r \in sent : r.id = claim.id /\ madeFor[r.key] = claim.id
    BY <1>0, <2>1 DEF LookupStands
  <2>3. claim.id \in Claims /\ key \in 1..MaxKeys
    BY <1>0, <2>1, <2>2
  <2>4. /\ new \in [id : Claims, key : 1..MaxKeys]
        /\ new.id = claim.id /\ new.key = key
    BY <2>3
  <2> HIDE DEF new
  <2>5. LookupStands'
    <3>1. \A s \in sent' : s.key <= Len(madeFor)
      BY <1>0, <2>1, <2>2, <2>4 DEF LookupStands
    <3>2. \/ madeFor[key] = claim.id
          \/ \E r \in sent' : r.id = claim.id /\ madeFor[r.key] = claim.id
      BY <2>1, <2>2
    <3> QED BY <2>1, <2>2, <3>1, <3>2 DEF LookupStands
  <2>6. OwnKeyFirst'
    <3>1. \E r \in sent' : r.id = new.id /\ madeFor[r.key] = new.id
      BY <2>1, <2>2, <2>4
    <3>2. \A s \in sent : \E r \in sent' : r.id = s.id /\ madeFor[r.key] = s.id
      BY <1>0, <2>1 DEF OwnKeyFirst
    <3> QED BY <2>1, <3>1, <3>2 DEF OwnKeyFirst
  <2> QED BY <1>0, <2>1, <2>4, <2>5, <2>6 DEF LookupInv
<1>4. ASSUME NEW submitted \in BOOLEAN, Refreshed(submitted) PROVE LookupInv'
  <2> DEFINE new == [id |-> trigger.id, submitted |-> submitted]
  <2>1. /\ trigger # None /\ claim' = new /\ trigger' = None
        /\ UNCHANGED <<key, searches, madeFor, sent>>
    BY <1>4 DEF Refreshed
  <2>2. trigger \in sent /\ key # 0 /\ trigger.id \in Claims
    BY <1>0, <2>1 DEF LookupStands
  <2>3. new \in [id : Claims, submitted : BOOLEAN] /\ new.id = trigger.id
    BY <2>2
  <2> HIDE DEF new
  <2>4. \E r \in sent : r.id = new.id /\ madeFor[r.key] = new.id
    BY <1>0, <2>2, <2>3 DEF OwnKeyFirst
  <2>5. LookupStands'
    BY <1>0, <2>1, <2>2, <2>4 DEF LookupStands
  <2>6. OwnKeyFirst'
    BY <1>0, <2>1 DEF OwnKeyFirst
  <2> QED BY <1>0, <2>1, <2>3, <2>5, <2>6 DEF LookupInv
<1>5. \/ UNCHANGED statusVars
      \/ \E id \in Claims : handleSearch(id) \/ SearchFails(id)
      \/ TriggerFails
      \/ /\ UNCHANGED <<madeFor, sent>> /\ searches' = {} /\ key' = 0
         /\ claim' = None /\ trigger' = None
      \/ \E id \in Claims, submitted \in BOOLEAN : SearchAnswered(id, submitted)
      \/ handleTriggerVerification
      \/ \E submitted \in BOOLEAN : Refreshed(submitted)
  BY DEF Next, vars, pageVars, openPage, Mount, LogoutOfPage, handleSubmit, createClaim,
         submitClaimOnChain, AttemptFails, ReadStatus, StatusArrives, StatusFails,
         getPolicyCatalog, handleSubscribe, handlePay, Begin, approve, pay, PaymentFails,
         ChangePrice, PremiumLapses
<1>6. CASE UNCHANGED statusVars
  BY <1>0, <1>1, <1>6 DEF statusVars
<1>7. CASE \E id \in Claims : handleSearch(id) \/ SearchFails(id)
  BY <1>0, <1>1, <1>7 DEF handleSearch, SearchFails
<1>8. CASE TriggerFails
  BY <1>0, <1>1, <1>8 DEF TriggerFails
<1>9. CASE /\ UNCHANGED <<madeFor, sent>> /\ searches' = {} /\ key' = 0
           /\ claim' = None /\ trigger' = None
  BY <1>1, <1>9
<1> QED BY <1>2, <1>3, <1>4, <1>5, <1>6, <1>7, <1>8, <1>9
-----------------------------------------------------------------------------
(* The badge and the payments *)

Settled == {p \in Payments : payments[p].pc \in {"done", "failed"}}

\* Every effect asks once, and an answer to the current effect was read after
\* everything that is shown.
AnswersStand ==
  /\ \A e \in asked : e <= effect
  /\ \A a \in answers : /\ a.effect <= effect /\ a.effect \notin asked
                        /\ a.status.paid <= paid
  /\ \A a, b \in answers : a.effect = b.effect => a = b
  /\ status # None =>
       /\ status.paid <= paid
       /\ \A a \in answers : a.effect = effect => status.paid <= a.status.paid

MoneyInv ==
  /\ payments \in [Payments -> Payment] /\ paying \in Payments \cup {None}
  /\ \A p \in Payments : payments[p].pc # "new" => payments[p].amount \in Prices
  /\ templates \in Prices \cup {None}
  /\ price \in Prices /\ due \in BOOLEAN
  /\ allowance \in Nat /\ charged \in Nat /\ agreed \in Nat /\ paid \in Nat
  /\ paid <= Cardinality(Settled)
  /\ SpendIsShown

BadgeInv ==
  /\ status \in PolicyStatus \cup {None} /\ loadError \in BOOLEAN
  /\ effect \in 0..MaxEffects /\ asked \in SUBSET (1..MaxEffects)
  /\ answers \in SUBSET [effect : 1..MaxEffects, status : PolicyStatus]
  /\ AnswersStand

PremiumInv == MoneyInv /\ BadgeInv

\* Nothing is paid, shown or asked.
LEMMA PremiumStarts == Init => PremiumInv
<1> SUFFICES ASSUME Init PROVE PremiumInv
  OBVIOUS
<1>1. /\ payments \in [Payments -> Payment]
      /\ \A p \in Payments : payments[p].pc = "new"
  BY DEF Init, Payment
<1>2. /\ paying = None /\ templates = None /\ status = None /\ loadError = FALSE
      /\ effect = 0 /\ asked = {} /\ answers = {}
      /\ price \in Prices /\ due \in BOOLEAN
      /\ allowance = 0 /\ charged = 0 /\ agreed = 0 /\ paid = 0
  BY DEF Init
<1>3. 0 <= Cardinality(Settled)
  <2>1. IsFiniteSet(Settled)
    BY PageBounds, FS_Subset DEF Settled
  <2> QED BY <2>1, FS_CardinalityType
<1>4. loadError \in BOOLEAN
  BY <1>2, Zenon
<1> QED BY <1>1, <1>2, <1>3, <1>4, PageBounds
  DEF PremiumInv, MoneyInv, BadgeInv, AnswersStand, SpendIsShown

\* What PremiumInv says, in the form the steps below use it.
LEMMA PremiumTypes ==
  ASSUME PremiumInv
  PROVE  /\ paid \in 0..Cardinality(Payments)
         /\ effect \in Nat /\ MaxEffects \in Nat
         /\ \A e \in asked : e \in 1..MaxEffects /\ e \in Nat /\ e <= effect
         /\ \A a \in answers : a.effect \in Nat /\ a.status.paid \in Nat
                               /\ a.status \in PolicyStatus
         /\ \A st \in PolicyStatus : st.amount \in Prices /\ st.paid \in Nat
         /\ \A n \in Prices : n \in Nat
<1>1. /\ IsFiniteSet(Payments) /\ Settled \in SUBSET Payments
      /\ MaxEffects \in Nat /\ \A n \in Prices : n \in Nat
  BY PageBounds DEF Settled
<1>2. /\ Cardinality(Payments) \in Nat /\ Cardinality(Settled) \in Nat
      /\ Cardinality(Settled) <= Cardinality(Payments)
  BY <1>1, FS_Subset, FS_CardinalityType
<1>3. \A st \in PolicyStatus : st.amount \in Prices /\ st.paid \in Nat
  BY <1>2 DEF PolicyStatus
<1>4. \A a \in answers : a.effect \in Nat /\ a.status \in PolicyStatus
  <2>1. \A a \in [effect : 1..MaxEffects, status : PolicyStatus] :
           a.effect \in Nat /\ a.status \in PolicyStatus
    BY <1>1
  <2> QED BY <2>1 DEF PremiumInv, BadgeInv
<1> QED BY <1>1, <1>2, <1>3, <1>4 DEF PremiumInv, MoneyInv, BadgeInv, AnswersStand

\* A payment that settles makes the settled ones one more.
LEMMA OneMoreSettled ==
  ASSUME PremiumInv, NEW p \in Payments, payments[p].pc \in {"approving", "approved"},
         \A q \in Payments : q # p => payments'[q] = payments[q],
         payments'[p].pc \in {"done", "failed"}
  PROVE  /\ Cardinality(Settled') = Cardinality(Settled) + 1
         /\ Cardinality(Settled) \in Nat
<1>1. p \notin Settled /\ Settled' = Settled \cup {p}
  BY DEF Settled
<1>2. IsFiniteSet(Settled)
  BY PageBounds, FS_Subset DEF Settled
<1> QED BY <1>1, <1>2, FS_AddElement, FS_CardinalityType

\* The money is as it was, but for the page's own view of it.
LEMMA MoneyNext ==
  ASSUME PremiumInv, [Next]_vars
  PROVE  MoneyInv' /\ paid' \in Nat /\ paid' >= paid
<1>0. /\ MoneyInv
      /\ payments \in [Payments -> Payment] /\ paying \in Payments \cup {None}
      /\ \A p \in Payments : payments[p].pc # "new" => payments[p].amount \in Prices
      /\ templates \in Prices \cup {None}
      /\ price \in Prices /\ due \in BOOLEAN
      /\ allowance \in Nat /\ charged \in Nat /\ agreed \in Nat /\ paid \in Nat
      /\ paid <= Cardinality(Settled)
      /\ charged + allowance <= agreed
      /\ \A n \in Prices : n \in Nat
  BY PageBounds DEF PremiumInv, MoneyInv, SpendIsShown
<1>1. ASSUME UNCHANGED <<payments, allowance, charged, agreed, paid>>,
             paying' \in Payments \cup {None}, templates' \in Prices \cup {None},
             price' \in Prices, due' \in BOOLEAN
      PROVE  MoneyInv' /\ paid' \in Nat /\ paid' >= paid
  BY <1>0, <1>1 DEF MoneyInv, SpendIsShown, Settled
<1>2. ASSUME NEW p \in Payments, NEW kind \in {"subscribe", "renew"},
             NEW amount \in Prices, Begin(p, kind, amount)
      PROVE  MoneyInv' /\ paid' \in Nat /\ paid' >= paid
  <2> DEFINE new == [pc |-> "approving", kind |-> kind, amount |-> amount]
  <2>1. /\ payments[p].pc = "new" /\ payments' = [payments EXCEPT ![p] = new]
        /\ paying' = p
        /\ UNCHANGED <<templates, price, due, allowance, charged, agreed, paid>>
    BY <1>2 DEF Begin
  <2>2. new \in Payment /\ new.pc = "approving" /\ new.amount = amount
    BY DEF Payment
  <2> HIDE DEF new
  <2>3. /\ payments' \in [Payments -> Payment] /\ payments'[p] = new
        /\ \A q \in Payments : q # p => payments'[q] = payments[q]
    BY <1>0, <2>1, <2>2
  <2>4. Settled' = Settled
    BY <2>1, <2>2, <2>3 DEF Settled
  <2> QED BY <1>0, <2>1, <2>2, <2>3, <2>4 DEF MoneyInv, SpendIsShown
<1>3. ASSUME NEW p \in Payments, NEW confirmed \in BOOLEAN, approve(p, confirmed)
      PROVE  MoneyInv' /\ paid' \in Nat /\ paid' >= paid
  <2> DEFINE amount == payments[p].amount
             new == IF confirmed THEN "approved" ELSE "failed"
  <2>1. /\ payments[p].pc = "approving" /\ allowance' = amount
        /\ agreed' = agreed + amount
        /\ payments' = [payments EXCEPT ![p].pc = new]
        /\ paying' \in {paying, None}
        /\ UNCHANGED <<templates, price, due, charged, paid>>
    BY <1>3 DEF approve, approvedAmount, Settle
  <2>2. amount \in Nat
    BY <1>0, <2>1
  <2>3. new \in {"approved", "failed"}
    OBVIOUS
  <2> HIDE DEF new
  <2>4. /\ payments' \in [Payments -> Payment] /\ payments'[p].pc = new
        /\ payments'[p].amount = amount
        /\ \A q \in Payments : q # p => payments'[q] = payments[q]
    BY <1>0, <2>1, <2>3 DEF Payment
  <2>5. paid <= Cardinality(Settled')
    <3>1. CASE new = "approved"
      <4>1. Settled' = Settled
        BY <2>1, <2>4, <3>1 DEF Settled
      <4> QED BY <1>0, <4>1
    <3>2. CASE new = "failed"
      BY <1>0, <2>1, <2>4, <3>2, OneMoreSettled
    <3> QED BY <2>3, <3>1, <3>2
  <2>6. \A q \in Payments : payments'[q].pc # "new" => payments'[q].amount \in Prices
    BY <1>0, <2>1, <2>4
  <2> HIDE DEF amount
  <2>7. charged + amount <= agreed + amount /\ agreed + amount \in Nat
    BY <1>0, <2>2
  <2> QED BY <1>0, <2>1, <2>2, <2>4, <2>5, <2>6, <2>7 DEF MoneyInv, SpendIsShown, Settled
<1>4. ASSUME NEW p \in Payments, NEW confirmed \in BOOLEAN, pay(p, confirmed)
      PROVE  MoneyInv' /\ paid' \in Nat /\ paid' >= paid
  <2> DEFINE new == IF confirmed THEN "done" ELSE "failed"
  <2>1. /\ payments[p].pc = "approved" /\ allowance >= price
        /\ allowance' = allowance - price /\ charged' = charged + price
        /\ paid' \in {paid, paid + 1}
        /\ payments' = [payments EXCEPT ![p].pc = new]
        /\ paying' \in {paying, None}
        /\ UNCHANGED <<templates, price, agreed>>
    BY <1>4 DEF pay, Settle
  <2>2. due' \in BOOLEAN
    <3>1. due' = (due /\ payments[p].kind # "renew")
      BY <1>4 DEF pay
    <3> QED BY <3>1, Zenon
  <2>3. new \in {"done", "failed"}
    OBVIOUS
  <2> HIDE DEF new
  <2>4. /\ payments' \in [Payments -> Payment] /\ payments'[p].pc = new
        /\ payments'[p].amount = payments[p].amount
        /\ \A q \in Payments : q # p => payments'[q] = payments[q]
    BY <1>0, <2>1, <2>3 DEF Payment
  <2>5. /\ Cardinality(Settled') = Cardinality(Settled) + 1
        /\ Cardinality(Settled) \in Nat
    BY <2>1, <2>3, <2>4, OneMoreSettled
  <2>6. paid' \in Nat /\ paid' >= paid /\ paid' <= Cardinality(Settled')
    BY <1>0, <2>1, <2>5
  <2>7. \A q \in Payments : payments'[q].pc # "new" => payments'[q].amount \in Prices
    BY <1>0, <2>1, <2>4
  <2>8. /\ allowance' \in Nat /\ charged' \in Nat
        /\ charged' + allowance' <= agreed
    BY <1>0, <2>1
  <2> QED BY <1>0, <2>1, <2>2, <2>4, <2>6, <2>7, <2>8 DEF MoneyInv, SpendIsShown, Settled
<1>5. ASSUME NEW p \in Payments, PaymentFails(p)
      PROVE  MoneyInv' /\ paid' \in Nat /\ paid' >= paid
  <2>1. /\ payments[p].pc \in {"approving", "approved"}
        /\ payments' = [payments EXCEPT ![p].pc = "failed"]
        /\ paying' \in {paying, None}
        /\ UNCHANGED <<templates, price, due, allowance, charged, agreed, paid>>
    BY <1>5 DEF PaymentFails, Settle
  <2>2. /\ payments' \in [Payments -> Payment] /\ payments'[p].pc = "failed"
        /\ payments'[p].amount = payments[p].amount
        /\ \A q \in Payments : q # p => payments'[q] = payments[q]
    BY <1>0, <2>1 DEF Payment
  <2>3. paid <= Cardinality(Settled')
    BY <1>0, <2>1, <2>2, OneMoreSettled
  <2>4. \A q \in Payments : payments'[q].pc # "new" => payments'[q].amount \in Prices
    BY <1>0, <2>1, <2>2
  <2> QED BY <1>0, <2>1, <2>2, <2>3, <2>4 DEF MoneyInv, SpendIsShown, Settled
<1>6. \/ UNCHANGED moneyVars
      \/ UNCHANGED <<payments, price, due, allowance, charged, agreed, paid>>
         /\ paying' = None /\ templates' = None
      \/ getPolicyCatalog
      \/ \E n \in Prices : ChangePrice(n)
      \/ PremiumLapses
      \/ \E p \in Payments : handleSubscribe(p) \/ handlePay(p) \/ PaymentFails(p)
      \/ \E p \in Payments, confirmed \in BOOLEAN :
           approve(p, confirmed) \/ pay(p, confirmed)
  BY DEF Next, vars, pageVars, openPage, Mount, LogoutOfPage, handleSubmit, createClaim,
         submitClaimOnChain, AttemptFails, handleSearch, SearchAnswered, SearchFails,
         handleTriggerVerification, Refreshed, TriggerFails, ReadStatus, StatusArrives,
         StatusFails
<1>7. CASE UNCHANGED moneyVars
  BY <1>0, <1>1, <1>7 DEF moneyVars
<1>8. CASE UNCHANGED <<payments, price, due, allowance, charged, agreed, paid>>
           /\ paying' = None /\ templates' = None
  BY <1>0, <1>1, <1>8
<1>9. CASE getPolicyCatalog
  BY <1>0, <1>1, <1>9 DEF getPolicyCatalog
<1>10. CASE \E n \in Prices : ChangePrice(n)
  BY <1>0, <1>1, <1>10 DEF ChangePrice
<1>11. CASE PremiumLapses
  <2>1. due' = TRUE /\ UNCHANGED <<payments, paying, templates, price, allowance, charged,
                                   agreed, paid>>
    BY <1>11 DEF PremiumLapses
  <2>2. due' \in BOOLEAN
    BY <2>1, Zenon
  <2> QED BY <1>0, <1>1, <2>1, <2>2
<1>12. ASSUME NEW p \in Payments, handleSubscribe(p)
       PROVE  MoneyInv' /\ paid' \in Nat /\ paid' >= paid
  BY <1>0, <1>2, <1>12 DEF handleSubscribe
<1>13. ASSUME NEW p \in Payments, handlePay(p)
       PROVE  MoneyInv' /\ paid' \in Nat /\ paid' >= paid
  <2>1. status # None /\ Begin(p, "renew", status.amount)
    BY <1>13 DEF handlePay
  <2>2. status.amount \in Prices
    BY <2>1, PremiumTypes DEF PremiumInv, BadgeInv
  <2> QED BY <1>2, <2>1, <2>2
<1> QED BY <1>3, <1>4, <1>5, <1>6, <1>7, <1>8, <1>9, <1>10, <1>11, <1>12, <1>13

\* The badge's requests, their answers in any order, and the effects that end them.
LEMMA BadgeNext ==
  ASSUME PremiumInv, [Next]_vars
  PROVE  BadgeInv'
<1>0. /\ status \in PolicyStatus \cup {None} /\ loadError \in BOOLEAN
      /\ effect \in 0..MaxEffects /\ effect \in Nat /\ MaxEffects \in Nat
      /\ asked \in SUBSET (1..MaxEffects)
      /\ answers \in SUBSET [effect : 1..MaxEffects, status : PolicyStatus]
      /\ AnswersStand
      /\ \A e \in asked : e \in Nat /\ e <= effect
      /\ \A a \in answers : a.effect \in Nat /\ a.status.paid \in Nat
                            /\ a.status \in PolicyStatus
      /\ status # None => status.paid \in Nat
      /\ paid \in Nat /\ paid' \in Nat /\ paid' >= paid
  BY PremiumTypes, MoneyNext DEF PremiumInv, MoneyInv, BadgeInv
<1>1. ASSUME UNCHANGED badgeVars PROVE BadgeInv'
  <2>1. AnswersStand'
    <3>1. UNCHANGED <<status, effect, asked, answers>>
      BY <1>1 DEF badgeVars
    <3>2. \A a \in answers : a.effect <= effect /\ a.effect \notin asked
                             /\ a.status.paid <= paid'
      BY <1>0 DEF AnswersStand
    <3>3. status # None => status.paid <= paid'
      BY <1>0 DEF AnswersStand
    <3> QED BY <1>0, <3>1, <3>2, <3>3 DEF AnswersStand
  <2> QED BY <1>0, <1>1, <2>1 DEF BadgeInv, badgeVars
<1>2. ASSUME status' = None, loadError' = FALSE, answers' = {},
             \/ asked' = {} /\ effect' = effect
             \/ effect < MaxEffects /\ effect' = effect + 1 /\ asked' = {effect'}
      PROVE  BadgeInv'
  <2>1. loadError' \in BOOLEAN
    BY <1>2, Zenon
  <2>2. effect' \in 0..MaxEffects /\ effect' \in Nat /\ asked' \in SUBSET (1..MaxEffects)
        /\ \A e \in asked' : e <= effect'
    BY <1>0, <1>2
  <2> QED BY <1>2, <2>1, <2>2 DEF BadgeInv, AnswersStand
<1>3. ASSUME NEW e \in asked, ReadStatus(e) PROVE BadgeInv'
  <2> DEFINE st == [amount |-> price, lapsed |-> due, paid |-> paid]
             new == [effect |-> e, status |-> st]
  <2>1. /\ asked' = asked \ {e} /\ answers' = answers \cup {new}
        /\ UNCHANGED <<status, loadError, effect, paid>>
    BY <1>3 DEF ReadStatus, moneyVars
  <2>2. st \in PolicyStatus /\ st.paid = paid
    BY PremiumTypes DEF PolicyStatus, PremiumInv, MoneyInv
  <2> HIDE DEF st
  <2>3. /\ new \in [effect : 1..MaxEffects, status : PolicyStatus]
        /\ new.effect = e /\ new.status.paid = paid
    BY <1>0, <2>2
  <2> HIDE DEF new
  <2>4. \A a \in answers : a.effect # e
    BY <1>0 DEF AnswersStand
  <2>5. \A a \in answers' : /\ a.effect <= effect /\ a.effect \notin asked'
                            /\ a.status.paid <= paid
    BY <1>0, <2>1, <2>3 DEF AnswersStand
  <2>6. \A a, b \in answers' : a.effect = b.effect => a = b
    BY <1>0, <2>1, <2>3, <2>4 DEF AnswersStand
  <2>7. status # None => /\ status.paid <= paid
                         /\ \A a \in answers' : a.effect = effect =>
                              status.paid <= a.status.paid
    BY <1>0, <2>1, <2>3 DEF AnswersStand
  <2>8. AnswersStand'
    BY <1>0, <2>1, <2>5, <2>6, <2>7 DEF AnswersStand
  <2> QED BY <1>0, <2>1, <2>3, <2>8 DEF BadgeInv
<1>4. ASSUME NEW a \in answers, StatusArrives(a) PROVE BadgeInv'
  <2>1. /\ answers' = answers \ {a}
        /\ status' = IF a.effect = effect THEN a.status ELSE status
        /\ UNCHANGED <<loadError, effect, asked, paid>>
    BY <1>4 DEF StatusArrives, Latest, moneyVars
  <2>2. CASE a.effect = effect
    <3>1. status' = a.status /\ a.status.paid <= paid
      BY <1>0, <2>1, <2>2 DEF AnswersStand
    <3>2. \A b \in answers' : b.effect # effect
      BY <1>0, <2>1, <2>2 DEF AnswersStand
    <3>3. AnswersStand'
      BY <1>0, <2>1, <3>1, <3>2 DEF AnswersStand
    <3> QED BY <1>0, <2>1, <3>1, <3>3 DEF BadgeInv
  <2>3. CASE a.effect # effect
    <3>1. status' = status
      BY <2>1, <2>3
    <3>2. AnswersStand'
      BY <1>0, <2>1, <3>1 DEF AnswersStand
    <3> QED BY <1>0, <2>1, <3>1, <3>2 DEF BadgeInv
  <2> QED BY <2>2, <2>3
<1>5. ASSUME NEW e \in asked, StatusFails(e) PROVE BadgeInv'
  <2>1. /\ asked' = asked \ {e}
        /\ UNCHANGED <<status, effect, answers, paid>>
    BY <1>5 DEF StatusFails, moneyVars
  <2>2. loadError' \in BOOLEAN
    <3>1. loadError' = (loadError \/ Latest(e))
      BY <1>5 DEF StatusFails
    <3> QED BY <3>1, Zenon
  <2>3. AnswersStand'
    BY <1>0, <2>1 DEF AnswersStand
  <2> QED BY <1>0, <2>1, <2>2, <2>3 DEF BadgeInv
<1>6. ASSUME UNCHANGED <<status, loadError, answers>>, effect < MaxEffects,
             effect' = effect + 1, asked' = asked \cup {effect'}
      PROVE  BadgeInv'
  <2>1. effect' \in 0..MaxEffects /\ effect' \in 1..MaxEffects /\ effect' \in Nat
    BY <1>0, <1>6
  <2>2. \A e \in asked' : e <= effect'
    BY <1>0, <1>6
  <2>3. \A a \in answers : /\ a.effect <= effect /\ a.effect \notin asked
                           /\ a.status.paid <= paid
    BY <1>0 DEF AnswersStand
  <2>4. \A a \in answers : /\ a.effect # effect' /\ a.effect <= effect'
                           /\ a.effect \notin asked' /\ a.status.paid <= paid'
    BY <1>0, <1>6, <2>3
  <2>5. status # None => status.paid <= paid'
    BY <1>0 DEF AnswersStand
  <2>6. AnswersStand'
    BY <1>0, <1>6, <2>2, <2>4, <2>5 DEF AnswersStand
  <2> QED BY <1>0, <1>6, <2>1, <2>6 DEF BadgeInv
<1>7. \/ UNCHANGED badgeVars
      \/ /\ status' = None /\ loadError' = FALSE /\ answers' = {}
         /\ \/ asked' = {} /\ effect' = effect
            \/ effect < MaxEffects /\ effect' = effect + 1 /\ asked' = {effect'}
      \/ \E e \in asked : ReadStatus(e) \/ StatusFails(e)
      \/ \E a \in answers : StatusArrives(a)
      \/ \E p \in Payments, confirmed \in BOOLEAN : pay(p, confirmed)
  BY DEF Next, vars, pageVars, openPage, Mount, LogoutOfPage, handleSubmit, createClaim,
         submitClaimOnChain, AttemptFails, handleSearch, SearchAnswered, SearchFails,
         handleTriggerVerification, Refreshed, TriggerFails, getPolicyCatalog,
         handleSubscribe, handlePay, Begin, approve, PaymentFails, ChangePrice,
         PremiumLapses
<1>8. ASSUME NEW p \in Payments, NEW confirmed \in BOOLEAN, pay(p, confirmed)
      PROVE  BadgeInv'
  <2> DEFINE again == payments[p].kind = "renew" /\ confirmed /\ paying = p
  <2>1. /\ again => effect < MaxEffects
        /\ effect' = IF again THEN effect + 1 ELSE effect
        /\ asked' = IF again THEN asked \cup {effect'} ELSE asked
        /\ UNCHANGED <<status, loadError, answers>>
    BY <1>8 DEF pay
  <2> HIDE DEF again
  <2>2. CASE again
    BY <1>6, <2>1, <2>2
  <2>3. CASE ~again
    BY <1>1, <2>1, <2>3 DEF badgeVars
  <2> QED BY <2>2, <2>3
<1> QED BY <1>1, <1>2, <1>3, <1>4, <1>5, <1>7, <1>8
-----------------------------------------------------------------------------
(* The application *)

Pages == {"none", "dashboard", "buy-policy", "file-claim", "claim-status"}
FrontendInv ==
  /\ LoginInv /\ FilingInv /\ LookupInv /\ PremiumInv
  /\ page \in Pages /\ form \in Attempts \cup {None}

\* The parts of the invariant hold of the application as it is opened.
LEMMA FrontendStarts == Init => FrontendInv
<1> SUFFICES ASSUME Init PROVE FrontendInv
  OBVIOUS
<1>1. page \in Pages /\ form \in Attempts \cup {None}
  BY DEF Init, Pages
<1>2. LoginInv
  BY LoginStarts DEF Init
<1> QED BY <1>1, <1>2, FilingStarts, LookupStarts, PremiumStarts DEF FrontendInv

\* Every step preserves all four parts.
LEMMA FrontendNext == FrontendInv /\ [Next]_vars => FrontendInv'
<1> SUFFICES ASSUME FrontendInv, [Next]_vars PROVE FrontendInv'
  OBVIOUS
<1>0. /\ LoginInv /\ FilingInv /\ LookupInv /\ PremiumInv
      /\ page \in Pages /\ form \in Attempts \cup {None}
  BY DEF FrontendInv
<1>1. LoginMoves \/ UNCHANGED loginVars
  BY PageBounds
  DEF Next, LoginMoves, vars, openPage, LogoutOfPage, handleSubmit, createClaim,
      submitClaimOnChain, AttemptFails, handleSearch, SearchAnswered, SearchFails,
      handleTriggerVerification, Refreshed, TriggerFails, ReadStatus, StatusArrives,
      StatusFails, getPolicyCatalog, handleSubscribe, handlePay, Begin, approve, pay,
      PaymentFails, ChangePrice, PremiumLapses
<1>2. LoginInv' /\ FilingInv' /\ LookupInv' /\ PremiumInv'
  BY <1>0, <1>1, LoginMovesOn, FilingNext, LookupNext, MoneyNext, BadgeNext DEF PremiumInv
<1>3. page' \in Pages /\ form' \in Attempts \cup {None}
  BY <1>0
  DEF Next, vars, pageVars, claimVars, openPage, Mount, LogoutOfPage, handleSubmit,
      createClaim, submitClaimOnChain, AttemptFails, handleSearch, SearchAnswered,
      SearchFails, handleTriggerVerification, Refreshed, TriggerFails, ReadStatus,
      StatusArrives, StatusFails, getPolicyCatalog, handleSubscribe, handlePay, Begin,
      approve, pay, PaymentFails, ChangePrice, PremiumLapses, Pages
<1> QED BY <1>2, <1>3 DEF FrontendInv

\* Every variable of the tabs, the endpoints and the pages keeps its type.
THEOREM FrontendTypeCorrect == Spec => []TypeOK
<1>1. FrontendInv => TypeOK
  <2> SUFFICES ASSUME FrontendInv PROVE TypeOK
    OBVIOUS
  <2>1. LoginTypeOK /\ paid \in 0..Cardinality(Payments)
    BY LoginImplies, PremiumTypes DEF FrontendInv
  <2> QED BY <2>1
    DEF FrontendInv, FilingInv, LookupInv, PremiumInv, MoneyInv, BadgeInv, TypeOK, Pages
<1> QED BY <1>1, FrontendStarts, FrontendNext, PTL DEF Spec

\* A tab has a token only for an account whose own key signed this tab's nonce, for
\* any number of tabs and accounts, whatever is selected in the wallet meanwhile.
THEOREM SessionsAreProved == Spec => []SessionIsProved
<1>1. FrontendInv => SessionIsProved
  BY LoginImplies DEF FrontendInv
<1> QED BY <1>1, FrontendStarts, FrontendNext, PTL DEF Spec

\* A nonce that verify_signature_and_consume_nonce judged is never open again, in
\* any interleaving of the two endpoints' loads and partial writes.
THEOREM JudgedNoncesAreSpent == Spec => []JudgedNonceIsSpent
<1>1. FrontendInv => JudgedNonceIsSpent
  BY LoginImplies DEF FrontendInv
<1> QED BY <1>1, FrontendStarts, FrontendNext, PTL DEF Spec

\* The backend refuses a login that the named account signed only when somebody
\* else wrote its row, or the row expired, while the login was under way.
THEOREM LoneLoginsSucceed == Spec => []LoneLoginSucceeds
<1>1. FrontendInv => LoneLoginSucceeds
  BY LoginImplies DEF FrontendInv
<1> QED BY <1>1, FrontendStarts, FrontendNext, PTL DEF Spec

\* No two rows and no two on-chain claims share a merkle root, and every claim on
\* the chain has its row, for any number of attempts, overlapping or repeated.
THEOREM RootsAlwaysCorrelate == Spec => []RootsCorrelate
<1>1. FrontendInv => RootsCorrelate
  <2> SUFFICES ASSUME FrontendInv PROVE RootsCorrelate
    OBVIOUS
  <2>1. /\ rows \in Seq(Root) /\ chain \in Seq(Root)
        /\ Unrepeated(rows) /\ Unrepeated(chain) /\ RootsStand
    BY DEF FrontendInv, FilingInv
  <2>2. DOMAIN rows = 1..Len(rows) /\ DOMAIN chain = 1..Len(chain)
    BY <2>1
  <2>3. IsInjective(rows) /\ IsInjective(chain)
    BY <2>1, <2>2 DEF IsInjective, Unrepeated
  <2>4. ToSet(chain) \subseteq ToSet(rows)
    BY <2>1, <2>2 DEF ToSet, RootsStand
  <2> QED BY <2>3, <2>4 DEF RootsCorrelate
<1> QED BY <1>1, FrontendStarts, FrontendNext, PTL DEF Spec

\* A claim is asked for under a key of its own before any other, in whatever order
\* lookups, answers and refreshes come.
THEOREM OwnKeyAlwaysFirst == Spec => []OwnKeyFirst
<1>1. FrontendInv => OwnKeyFirst
  BY DEF FrontendInv, LookupInv
<1> QED BY <1>1, FrontendStarts, FrontendNext, PTL DEF Spec

\* What the policy contract took and may still take was shown on a button first.
THEOREM SpendIsAlwaysShown == Spec => []SpendIsShown
<1>1. FrontendInv => SpendIsShown
  BY DEF FrontendInv, PremiumInv, MoneyInv
<1> QED BY <1>1, FrontendStarts, FrontendNext, PTL DEF Spec

\* No answer that was read before a renewal replaces a status that shows it.
THEOREM BadgeNeverReturns == Spec => BadgeNeverGoesBack
<1> DEFINE Forward == status # None /\ status' # None => status'.paid >= status.paid
<1>1. FrontendInv /\ [Next]_vars => [Forward]_status
  <2> SUFFICES ASSUME FrontendInv, [Next]_vars, status' # status, status # None,
                      status' # None
               PROVE  status'.paid >= status.paid
    OBVIOUS
  <2>0. PremiumInv /\ AnswersStand
    BY DEF FrontendInv, PremiumInv, BadgeInv
  <2>1. PICK a \in answers : StatusArrives(a)
    BY DEF Next, vars, pageVars, badgeVars, openPage, Mount, LogoutOfPage, handleSubmit,
           createClaim, submitClaimOnChain, AttemptFails, handleSearch, SearchAnswered,
           SearchFails, handleTriggerVerification, Refreshed, TriggerFails, ReadStatus,
           StatusFails, getPolicyCatalog, handleSubscribe, handlePay, Begin, approve, pay,
           PaymentFails, ChangePrice, PremiumLapses
  <2>2. a.effect = effect /\ status' = a.status
    BY <2>1 DEF StatusArrives, Latest
  <2>3. status.paid <= a.status.paid
    BY <2>0, <2>2 DEF AnswersStand
  <2>4. status.paid \in Nat /\ a.status.paid \in Nat
    BY <2>0, PremiumTypes DEF PremiumInv, BadgeInv
  <2> QED BY <2>2, <2>3, <2>4
<1> QED BY <1>1, FrontendStarts, FrontendNext, PTL DEF Spec, BadgeNeverGoesBack
=============================================================================
