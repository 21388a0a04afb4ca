------------------------- MODULE ClaimVerification --------------------------
(***************************************************************************)
(* The backend's claim records (backend/app/routes/claims_routes.py and    *)
(* internal_routes.py), the oracle service it calls (oracle-service/src)   *)
(* and the indexer's webhook.                                              *)
(*                                                                         *)
(* Requests run concurrently, each in a database session of its own, and   *)
(* interleave at every await.  A request is a slot that is used once; its  *)
(* call to the oracle service lives on when the request times out or dies, *)
(* and the oracle request id of the call is the slot.  The chain is seen   *)
(* as the list of claims submitted to it: the id of a claim is its         *)
(* position, and a verdict decides the claim with the id it names.         *)
(***************************************************************************)
EXTENDS Naturals, Sequences, FiniteSets, SequencesExt

CONSTANTS Requests,           \* slots of trigger-verification requests
          Keys, Null,         \* Idempotency-Key values; no value
          Roots,              \* merkle roots
          DeclaredAmounts,    \* declared_amount of a claim
          Threshold,          \* MOCK_APPROVAL_THRESHOLD
          Payloads,           \* field names in the bodies of webhook calls
          ManualStatuses,     \* statuses an underwriter sets by hand
          MaxRows,            \* bound on backend claims
          MaxChainClaims,     \* bound on claims on the chain
          MaxEvents           \* bound on webhook calls

ASSUME VerificationBounds ==
  /\ MaxRows \in Nat /\ MaxChainClaims \in Nat /\ MaxEvents \in Nat
  /\ DeclaredAmounts \subseteq Nat /\ Threshold \in Nat
  /\ Null \notin Keys \cup Roots \cup Requests
  /\ ManualStatuses \subseteq
       {"submitted", "under_review", "approved", "rejected", "paid"}

RowIds == 1..MaxRows
ChainIds == 1..MaxChainClaims
ClaimStatus == {"draft", "submitted", "under_review", "approved", "rejected", "paid"}
ChainStatus == ClaimStatus \ {"draft"}

\* What reportClaimEvent puts into the body, and what the endpoint's model needs.
SentFields == {"eventName", "onchainClaimId", "merkleRoot", "txHash", "status"}
RequiredFields == {"onchain_claim_id", "merkle_root", "tx_hash", "status"}

\* A row of the claims table; its id is its position.
Row == [root : Roots \cup {Null}, amount : Nat, status : ClaimStatus,
        onchainClaimId : ChainIds \cup {Null},
        oracleRequestId : Requests \cup {Null}]

\* pc: "new", "load", "calling", "answered", "store", "insert", "done" (200 or
\* 404), "conflict" (500: another request stored its response first), "dead"
\* (timed out, 502 or lost with the process).
Request == [pc : {"new", "load", "calling", "answered", "store", "insert", "done",
                  "conflict", "dead"},
            row : RowIds \cup {Null}, key : Keys \cup {Null},
            loaded : ClaimStatus \cup {Null}, approved : BOOLEAN]
FreshRequest == [pc |-> "new", row |-> Null, key |-> Null, loaded |-> Null,
                 approved |-> FALSE]

\* A webhook call between its select and its commit.
Webhook == [row : RowIds, loaded : ClaimStatus, claim : ChainIds, status : ChainStatus]

VARIABLES
  rows,          \* the claims table
  idempotency,   \* idempotency_keys: the request whose response is stored
  requests,
  calls,         \* per request: its call to the oracle service, "none",
                 \* "sent", "relayed" (decided on the chain), "unconfirmed"
                 \* (decided, but the wait for the receipt failed), "refused"
  chainClaims,   \* sequence of [root, status]
  outbox, sent,  \* webhook calls on their way, in order; how many there were
  webhook        \* the call being handled: its row, the status that the session
                 \* loaded, and what the event says; Null between calls

\* History variables: no guard reads them.
VARIABLES
  target,        \* per request: on-chain claim its verdict was applied to
  everPaid,      \* roots of claims that were "Paid" on the chain
  overlapped     \* keys that were in use by two requests at a time

vars == <<rows, idempotency, requests, calls, chainClaims, outbox, sent, webhook,
          target, everPaid, overlapped>>

TypeOK ==
  /\ rows \in Seq(Row) /\ Len(rows) <= MaxRows
  /\ idempotency \in [Keys -> Requests \cup {Null}]
  /\ requests \in [Requests -> Request]
  /\ calls \in [Requests -> {"none", "sent", "relayed", "unconfirmed", "refused"}]
  /\ chainClaims \in Seq([root : Roots, status : ChainStatus])
  /\ Len(chainClaims) <= MaxChainClaims
  /\ outbox \in Seq([root : Roots, claim : ChainIds, status : ChainStatus])
  /\ sent \in 0..MaxEvents
  /\ webhook \in Webhook \cup {Null}
  /\ target \in [Requests -> ChainIds \cup {Null}]
  /\ everPaid \subseteq Roots /\ overlapped \subseteq Keys

Init ==
  /\ rows = << >>
  /\ idempotency = [k \in Keys |-> Null]
  /\ requests = [q \in Requests |-> FreshRequest]
  /\ calls = [q \in Requests |-> "none"]
  /\ chainClaims = << >>
  /\ outbox = << >> /\ sent = 0 /\ webhook = Null
  /\ target = [q \in Requests |-> Null]
  /\ everPaid = {} /\ overlapped = {}
-----------------------------------------------------------------------------
(* The chain (external) and the indexer's messages about it *)

Notify(claim, claims) ==
  /\ sent < MaxEvents
  /\ sent' = sent + 1
  /\ outbox' = Append(outbox, [root |-> claims[claim].root, claim |-> claim,
                               status |-> claims[claim].status])

\* submitClaim: the contract hands out the next id.
SubmitOnChain(root) ==
  /\ Len(chainClaims) < MaxChainClaims
  /\ chainClaims' = Append(chainClaims, [root |-> root, status |-> "submitted"])
  /\ Notify(Len(chainClaims) + 1, chainClaims')
  /\ UNCHANGED <<rows, idempotency, requests, calls, target, everPaid,
                 overlapped, webhook>>

\* setClaimStatus of an underwriter, who may choose any status; payoutClaim is
\* the case of an approved claim that becomes paid.
SetStatusOnChain(claim, status) ==
  /\ claim <= Len(chainClaims)
  /\ chainClaims' = [chainClaims EXCEPT ![claim].status = status]
  /\ everPaid' = IF status = "paid"
                 THEN everPaid \cup {chainClaims[claim].root} ELSE everPaid
  /\ Notify(claim, chainClaims')
  /\ UNCHANGED <<rows, idempotency, requests, calls, target, overlapped, webhook>>
-----------------------------------------------------------------------------
(* claims_routes.py *)

create_claim(root, amount) ==
  /\ Len(rows) < MaxRows
  /\ rows' = Append(rows, [root |-> root, amount |-> amount, status |-> "draft",
                           onchainClaimId |-> Null, oracleRequestId |-> Null])
  /\ UNCHANGED <<idempotency, requests, calls, chainClaims, outbox, sent, target,
                 everPaid, overlapped, webhook>>

InFlight(q) ==
  requests[q].pc \in {"load", "calling", "answered", "store", "insert"}

\* A mutated form: the stored response is not looked up.
CachedNever(key) == FALSE
\* get_cached_response
Cached(key) == key # Null /\ idempotency[key] # Null

\* trigger_verification up to the first answer of the database: a stored
\* response is returned as it is.
trigger_verification(q, row, key) ==
  /\ requests[q].pc = "new"
  /\ requests' = [requests EXCEPT ![q] =
       [FreshRequest EXCEPT !.pc = IF Cached(key) THEN "done" ELSE "load",
                            !.row = row, !.key = key]]
  /\ overlapped' = IF \E p \in Requests : requests[p].key = key /\ InFlight(p)
                   THEN overlapped \cup ({key} \ {Null}) ELSE overlapped
  /\ UNCHANGED <<rows, idempotency, calls, chainClaims, outbox, sent, target,
                 everPaid, webhook>>

\* db.get(Claim): 404, or the row is loaded into the session and the call made.
LoadAndCall(q) ==
  LET row == requests[q].row
  IN  /\ requests[q].pc = "load"
      /\ IF row > Len(rows)
         THEN /\ requests' = [requests EXCEPT ![q].pc = "done"]
              /\ UNCHANGED calls
         ELSE /\ requests' = [requests EXCEPT ![q].pc = "calling",
                                              ![q].loaded = rows[row].status]
              /\ calls' = [calls EXCEPT ![q] = "sent"]
      /\ UNCHANGED <<rows, idempotency, chainClaims, outbox, sent, target,
                     everPaid, overlapped, webhook>>

\* A mutated form: the status code of the answer is not looked at.
SucceededAnyway(q) == TRUE
\* The oracle service answers 200 only after the relay was confirmed.
Succeeded(q) == calls[q] = "relayed"

\* The answer arrives; anything but a 200 ends the request with a 502.
ReceiveAnswer(q) ==
  /\ requests[q].pc = "calling"
  /\ calls[q] \in {"relayed", "unconfirmed", "refused"}
  /\ requests' = [requests EXCEPT ![q].pc =
                    IF Succeeded(q) THEN "answered" ELSE "dead"]
  /\ UNCHANGED <<rows, idempotency, calls, chainClaims, outbox, sent, target,
                 everPaid, overlapped, webhook>>

\* A mutated form: a status the model does not know.
VerdictStatusForeign(approved) == IF approved THEN "approved" ELSE "declined"
VerdictStatus(approved) == IF approved THEN "approved" ELSE "rejected"

\* claim.status, oracle_request_id and tx_hash, committed together.  The unit
\* of work writes a column only if it differs from what the session loaded.
CommitVerdict(q) ==
  LET r == requests[q]
      verdict == VerdictStatus(r.approved)
  IN  /\ r.pc = "answered"
      /\ rows' = [rows EXCEPT
           ![r.row].status = IF verdict = r.loaded THEN @ ELSE verdict,
           ![r.row].oracleRequestId = q]
      /\ requests' = [requests EXCEPT ![q].pc =
                        IF r.key = Null THEN "done" ELSE "store"]
      /\ UNCHANGED <<idempotency, calls, chainClaims, outbox, sent, target,
                     everPaid, overlapped, webhook>>

\* store_response looks for a response under the key: the first one is kept.
store_response(q) ==
  /\ requests[q].pc = "store"
  /\ requests' = [requests EXCEPT ![q].pc =
                    IF idempotency[requests[q].key] = Null THEN "insert" ELSE "done"]
  /\ UNCHANGED <<rows, idempotency, calls, chainClaims, outbox, sent, target,
                 everPaid, overlapped, webhook>>

\* A mutated form: the response is added and never committed.
CommittedNever(key, q) == idempotency
\* db.add and db.commit
Committed(key, q) == [idempotency EXCEPT ![key] = q]

\* The insert of store_response.  The key is the primary key: a response stored
\* since the lookup makes the commit raise, and the request ends with a 500
\* although its verdict is relayed and recorded.
InsertResponse(q) ==
  LET key == requests[q].key
      free == idempotency[key] = Null
  IN  /\ requests[q].pc = "insert"
      /\ idempotency' = IF free THEN Committed(key, q) ELSE idempotency
      /\ requests' = [requests EXCEPT ![q].pc = IF free THEN "done" ELSE "conflict"]
      /\ UNCHANGED <<rows, calls, chainClaims, outbox, sent, target, everPaid,
                     overlapped, webhook>>

\* The call times out (oracle_service_timeout_seconds) or the process dies.
Interrupt(q) ==
  /\ InFlight(q)
  /\ requests' = [requests EXCEPT ![q].pc = "dead"]
  /\ UNCHANGED <<rows, idempotency, calls, chainClaims, outbox, sent, target,
                 everPaid, overlapped, webhook>>
-----------------------------------------------------------------------------
(* oracle-service: POST /verify *)

evaluateClaim(amount) == amount > 0 /\ amount <= Threshold

\* The claim id of the request, as the backend filled it in: its own row id.
ClaimIdOf(q) == requests[q].row

\* The signed verdict is sent to the adapter, which reverts for a claim that the
\* registry does not have; then the service waits for the receipt.
submitVerificationOnChain(q, claim, approved, confirmed) ==
  IF claim > Len(chainClaims)
  THEN /\ calls' = [calls EXCEPT ![q] = "refused"]
       /\ UNCHANGED <<chainClaims, target, outbox, sent>>
  ELSE /\ calls' = [calls EXCEPT ![q] = IF confirmed THEN "relayed" ELSE "unconfirmed"]
       /\ chainClaims' = [chainClaims EXCEPT ![claim].status =
                            IF approved THEN "approved" ELSE "rejected"]
       /\ target' = [target EXCEPT ![q] = claim]
       /\ Notify(claim, chainClaims')

\* Evaluate, sign and relay.  The decision is part of the answer.
verify(q, confirmed) ==
  LET approved == evaluateClaim(rows[requests[q].row].amount)
  IN  /\ calls[q] = "sent"
      /\ submitVerificationOnChain(q, ClaimIdOf(q), approved, confirmed)
      /\ requests' = [requests EXCEPT ![q].approved = approved]
      /\ UNCHANGED <<rows, idempotency, everPaid, overlapped, webhook>>

\* The key or the body is refused, or the service or the node fails: nothing
\* reached the chain.
VerifyFails(q) ==
  /\ calls[q] = "sent"
  /\ calls' = [calls EXCEPT ![q] = "refused"]
  /\ UNCHANGED <<rows, idempotency, requests, chainClaims, outbox, sent, target,
                 everPaid, overlapped, webhook>>
-----------------------------------------------------------------------------
(* internal_routes.py *)

\* A mutated form: correlated by the id instead of the root.
MatchesById(event) == {r \in 1..Len(rows) : r = event.claim}
\* select(Claim).where(Claim.merkle_root == payload.merkle_root)
Matches(event) == {r \in 1..Len(rows) : rows[r].root = event.root}

\* Up to the answer of the select.  Validation fails (422), several rows match
\* (500), none does, or one does and is loaded.  The indexer awaits every answer,
\* so calls come one at a time.
receive_onchain_event(fields) ==
  LET event == Head(outbox)
      valid == RequiredFields \subseteq fields
      match == Matches(event)
  IN  /\ webhook = Null /\ outbox # << >>
      /\ outbox' = Tail(outbox)
      /\ \/ /\ ~valid \/ Cardinality(match) # 1
            /\ UNCHANGED webhook
         \/ \E r \in match :
              /\ valid /\ match = {r}
              /\ webhook' = [row |-> r, loaded |-> rows[r].status,
                             claim |-> event.claim, status |-> event.status]
      /\ UNCHANGED <<rows, idempotency, requests, calls, chainClaims, sent, target,
                     everPaid, overlapped>>

\* The row takes over the id and the status, the latter only if it differs from
\* what the session loaded.
CommitEvent ==
  LET w == webhook
  IN  /\ w # Null
      /\ rows' = [rows EXCEPT
           ![w.row].onchainClaimId = w.claim,
           ![w.row].status = IF w.status = w.loaded THEN @ ELSE w.status]
      /\ webhook' = Null
      /\ UNCHANGED <<idempotency, requests, calls, chainClaims, outbox, sent, target,
                     everPaid, overlapped>>

\* The webhook call is lost: the indexer died or the backend was down, or it died
\* before its commit.
LoseEvent ==
  /\ \/ webhook = Null /\ outbox # << >> /\ outbox' = Tail(outbox)
     \/ webhook # Null /\ UNCHANGED outbox
  /\ webhook' = Null
  /\ UNCHANGED <<rows, idempotency, requests, calls, chainClaims, sent, target,
                 everPaid, overlapped>>
-----------------------------------------------------------------------------
Next ==
  \/ \E root \in Roots : SubmitOnChain(root)
  \/ \E c \in ChainIds, s \in ManualStatuses : SetStatusOnChain(c, s)
  \/ \E root \in Roots \cup {Null}, n \in DeclaredAmounts : create_claim(root, n)
  \/ \E q \in Requests, r \in RowIds, k \in Keys \cup {Null} :
       trigger_verification(q, r, k)
  \/ \E q \in Requests : LoadAndCall(q)
  \/ \E q \in Requests : ReceiveAnswer(q)
  \/ \E q \in Requests : CommitVerdict(q)
  \/ \E q \in Requests : store_response(q)
  \/ \E q \in Requests : InsertResponse(q)
  \/ \E q \in Requests : Interrupt(q)
  \/ \E q \in Requests, b \in BOOLEAN : verify(q, b)
  \/ \E q \in Requests : VerifyFails(q)
  \/ \E fields \in Payloads : receive_onchain_event(fields)
  \/ CommitEvent
  \/ LoseEvent

Spec == Init /\ [][Next]_vars
-----------------------------------------------------------------------------
(* Properties *)

\* Requests with this key whose verdict reached the chain.
Fired(key) == {q \in Requests : /\ requests[q].key = key
                                /\ calls[q] \in {"relayed", "unconfirmed"}}
Interrupted(key) ==
  \E q \in Requests : requests[q].key = key /\ requests[q].pc = "dead"

\* What the Idempotency-Key really gives: a verdict is relayed twice for one
\* key only if two requests with the key overlapped or one was interrupted or
\* answered with an error.
\* A retry after an answer never reaches the oracle service.
RetryAfterAnswerIsFree ==
  \A k \in Keys : Cardinality(Fired(k)) > 1 => k \in overlapped \/ Interrupted(k)

\* The verdict a row records is one that was asked for this row and reached
\* the chain, whatever other requests, time-outs and webhooks did meanwhile;
\* the response stored for a key is that of a request made with the key whose
\* verdict reached the chain.
RecordedVerdictIsReal ==
  /\ \A r \in 1..Len(rows) :
       LET q == rows[r].oracleRequestId
       IN  q # Null => requests[q].row = r /\ calls[q] = "relayed"
  /\ \A k \in Keys :
       LET q == idempotency[k]
       IN  q # Null => requests[q].key = k /\ calls[q] = "relayed"

\* A row shows "paid" only if a claim with its merkle root was "Paid" on the
\* chain: neither a late verdict nor a webhook for another claim can say so.
PaidIsPaidOnChain ==
  \A r \in 1..Len(rows) : rows[r].status = "paid" => rows[r].root \in everPaid

\* What is left when requests with one key race for the insert: whoever is
\* answered with a verdict leaves a response under its key, so that a retry costs
\* nothing; and only a request that overlapped another one ends with the 500 of
\* the lost insert, with the other's response stored.
AnswerIsStored ==
  \A q \in Requests :
    LET key == requests[q].key
    IN  key # Null =>
          /\ requests[q].pc = "done" /\ calls[q] # "none" => idempotency[key] # Null
          /\ requests[q].pc = "conflict" =>
               key \in overlapped /\ idempotency[key] \notin {q, Null}

\* Documented: the endpoint has the oracle evaluate "this claim".  The verdict
\* lands on the on-chain claim whose id happens to equal the row id.
VerdictDecidesThisClaim ==
  \A q \in Requests : target[q] # Null =>
    chainClaims[target[q]].root = rows[requests[q].row].root
=============================================================================
