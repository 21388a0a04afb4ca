------------------------- MODULE VerificationProofs -------------------------
(***************************************************************************)
(* Theorems about the backend's claim records, the verification requests   *)
(* and the webhook.                                                        *)
(*                                                                         *)
(* RequestStands relates where a request is to what became of its call,    *)
(* which lives on when the request does not; the other parts add why a     *)
(* second verdict for a key needs an overlap or a failure (NotedTwice),    *)
(* who can meet a stored response on the way to its own (KeyStands), and   *)
(* where a "paid" can come from (PaidStands).                              *)
(***************************************************************************)
EXTENDS ClaimVerification, FiniteSetTheorems, SequenceTheorems, TLAPS

\* Where a request is, and what became of its call.
RequestStands(q) ==
  /\ requests[q].pc # "new" => requests[q].row \in RowIds
  /\ requests[q].pc \in {"new", "load"} => calls[q] = "none"
  /\ calls[q] # "none" => requests[q].row \in 1..Len(rows)
  /\ requests[q].pc = "calling" => calls[q] # "none"
  /\ requests[q].pc \in {"answered", "store", "insert", "conflict"}
       => calls[q] = "relayed"
  /\ requests[q].pc \in {"store", "insert", "conflict"} => requests[q].key \in Keys
  /\ /\ requests[q].pc \in {"done", "conflict"} /\ calls[q] # "none"
     /\ requests[q].key \in Keys
     => idempotency[requests[q].key] # Null

\* A request that may have reached the oracle service, or still may.
Active(q) == InFlight(q) \/ calls[q] # "none"

\* Two such requests with one key overlapped, or one of them failed.
NotedTwice ==
  \A k \in Keys : \A p, q \in Requests :
    p # q /\ requests[p].key = k /\ requests[q].key = k /\ Active(p) /\ Active(q)
      => k \in overlapped \/ Interrupted(k)

\* A request under way meets a stored response under its key, or another request
\* with the key, only if the overlap was noted; one that lost the insert met the
\* response of another request, for the one that stored its own is done.
KeyStands(q) ==
  LET key == requests[q].key
  IN  /\ InFlight(q) /\ key \in Keys =>
           /\ idempotency[key] # Null => key \in overlapped
           /\ \A p \in Requests :
                p # q /\ InFlight(p) /\ requests[p].key = key => key \in overlapped
      /\ requests[q].pc = "conflict" => key \in overlapped /\ idempotency[key] # q
      /\ \A k \in Keys : idempotency[k] = q => requests[q].pc = "done"

\* What is paid on the chain, or says so on its way, was paid.
PaidStands ==
  /\ \A c \in 1..Len(chainClaims) :
       chainClaims[c].status = "paid" => chainClaims[c].root \in everPaid
  /\ \A i \in 1..Len(outbox) : outbox[i].status = "paid" => outbox[i].root \in everPaid
  /\ webhook # Null /\ webhook.status = "paid" => rows[webhook.row].root \in everPaid
  /\ PaidIsPaidOnChain

RequestInv ==
  /\ TypeOK
  /\ webhook # Null => webhook.row \in 1..Len(rows)
  /\ \A q \in Requests : RequestStands(q)

\* A step of request q to pc x that keeps its row, its key and all other requests.
Moves(q, x) ==
  /\ requests' \in [Requests -> Request]
  /\ requests'[q].pc = x
  /\ requests'[q].row = requests[q].row
  /\ requests'[q].key = requests[q].key
  /\ \A p \in Requests : p # q => requests'[p] = requests[p]

PC == {"new", "load", "calling", "answered", "store", "insert", "done", "conflict",
       "dead"}
-----------------------------------------------------------------------------
(* What the actions do to requests and to rows *)

\* Setting the pc of a request is such a step.
LEMMA PcMoves ==
  ASSUME requests \in [Requests -> Request], NEW q \in Requests, NEW x \in PC,
         requests' = [requests EXCEPT ![q].pc = x]
  PROVE  Moves(q, x)
  BY DEF Moves, Request, PC

\* LoadAndCall ends the request or sends its call for a row that exists.
LEMMA LoadFacts ==
  ASSUME RequestInv, NEW q \in Requests, LoadAndCall(q)
  PROVE  /\ requests[q].pc = "load"
         /\ \/ Moves(q, "done") /\ calls' = calls
            \/ /\ Moves(q, "calling") /\ requests[q].row \in 1..Len(rows)
               /\ calls' = [calls EXCEPT ![q] = "sent"]
  <1>1. requests \in [Requests -> Request] /\ rows \in Seq(Row)
        /\ requests[q].pc = "load"
    BY DEF RequestInv, TypeOK, LoadAndCall
  <1>2. requests[q].row \in RowIds /\ Len(rows) \in Nat
    BY <1>1 DEF RequestInv, RequestStands
  <1>3. CASE requests[q].row > Len(rows)
    <2>1. requests' = [requests EXCEPT ![q].pc = "done"] /\ calls' = calls
      BY <1>3 DEF LoadAndCall
    <2> QED
      BY <1>1, <2>1, PcMoves DEF PC
  <1>4. CASE ~(requests[q].row > Len(rows))
    <2>1. requests[q].row \in 1..Len(rows)
      BY <1>2, <1>4, VerificationBounds DEF RowIds
    <2>2. /\ calls' = [calls EXCEPT ![q] = "sent"]
          /\ requests' = [requests EXCEPT ![q].pc = "calling",
                                          ![q].loaded = rows[requests[q].row].status]
      BY <1>4 DEF LoadAndCall
    <2>3. rows[requests[q].row].status \in ClaimStatus
      <3>1. rows[requests[q].row] \in Row
        BY <1>1, <2>1, ElementOfSeq
      <3> QED
        BY <3>1 DEF Row
    <2>4. Moves(q, "calling")
      <3>1. requests'[q].pc = "calling" /\ requests'[q].row = requests[q].row
            /\ requests'[q].key = requests[q].key
        BY <1>1, <2>2 DEF Request
      <3>2. \A p \in Requests : p # q => requests'[p] = requests[p]
        BY <1>1, <2>2
      <3>3. requests'[q] \in Request
        BY <1>1, <2>2, <2>3 DEF Request
      <3>4. requests' \in [Requests -> Request]
        BY <1>1, <2>2, <3>2, <3>3
      <3> QED
        BY <3>1, <3>2, <3>4 DEF Moves
    <2> QED
      BY <1>1, <2>1, <2>2, <2>4
  <1> QED
    BY <1>3, <1>4

\* ReceiveAnswer goes on only with the answer of a relayed verdict.
LEMMA AnswerFacts ==
  ASSUME RequestInv, NEW q \in Requests, ReceiveAnswer(q)
  PROVE  /\ requests[q].pc = "calling"
         /\ \/ Moves(q, "answered") /\ calls[q] = "relayed"
            \/ Moves(q, "dead")
  <1>1. requests \in [Requests -> Request] /\ requests[q].pc = "calling"
    BY DEF RequestInv, TypeOK, ReceiveAnswer
  <1>2. CASE calls[q] = "relayed"
    <2>1. requests' = [requests EXCEPT ![q].pc = "answered"]
      BY <1>2 DEF ReceiveAnswer, Succeeded
    <2> QED
      BY <1>1, <1>2, <2>1, PcMoves DEF PC
  <1>3. CASE calls[q] # "relayed"
    <2>1. requests' = [requests EXCEPT ![q].pc = "dead"]
      BY <1>3 DEF ReceiveAnswer, Succeeded
    <2> QED
      BY <1>1, <2>1, PcMoves DEF PC
  <1> QED
    BY <1>2, <1>3

\* The fields of the row that CommitVerdict writes, and the rows it leaves.
LEMMA CommitFacts ==
  ASSUME RequestInv, NEW q \in Requests, CommitVerdict(q)
  PROVE  /\ requests[q].pc = "answered" /\ requests[q].row \in 1..Len(rows)
         /\ IF requests[q].key = Null THEN Moves(q, "done") ELSE Moves(q, "store")
         /\ rows' \in Seq(Row) /\ Len(rows') = Len(rows)
         /\ \A r \in 1..Len(rows) :
              /\ rows'[r].root = rows[r].root
              /\ IF r = requests[q].row
                 THEN /\ rows'[r].oracleRequestId = q
                      /\ rows'[r].status \in {rows[r].status, "approved", "rejected"}
                 ELSE rows'[r] = rows[r]
  <1> DEFINE row == requests[q].row
             s == IF VerdictStatus(requests[q].approved) = requests[q].loaded
                  THEN rows[row].status ELSE VerdictStatus(requests[q].approved)
  <1>1. requests \in [Requests -> Request] /\ rows \in Seq(Row)
        /\ requests[q].pc = "answered"
    BY DEF RequestInv, TypeOK, CommitVerdict
  <1>2. row \in 1..Len(rows)
    BY <1>1 DEF RequestInv, RequestStands
  <1>3. rows' = [rows EXCEPT ![row].status = s, ![row].oracleRequestId = q]
    BY DEF CommitVerdict
  <1>4. requests' = [requests EXCEPT ![q].pc =
                       IF requests[q].key = Null THEN "done" ELSE "store"]
    BY DEF CommitVerdict
  <1>5. s \in {rows[row].status, "approved", "rejected"}
    BY DEF VerdictStatus
  <1>6. rows[row] \in Row
    BY <1>1, <1>2, ElementOfSeq
  <1>7. s \in ClaimStatus
    BY <1>5, <1>6 DEF Row, ClaimStatus
  <1> HIDE DEF s
  <1>8. /\ rows'[row].status = s /\ rows'[row].oracleRequestId = q
        /\ rows'[row].root = rows[row].root
        /\ rows'[row] \in Row
    <2> DEFINE mid == [rows EXCEPT ![row].status = s]
    <2>1. rows \in [1..Len(rows) -> Row]
      BY <1>1
    <2>2. /\ mid[row] \in Row /\ mid[row].status = s
          /\ mid[row].root = rows[row].root /\ DOMAIN mid = 1..Len(rows)
      BY <1>2, <1>6, <1>7, <2>1 DEF Row
    <2>3. rows' = [mid EXCEPT ![row].oracleRequestId = q]
      BY <1>3
    <2> HIDE DEF mid
    <2>4. rows'[row] = [mid[row] EXCEPT !.oracleRequestId = q]
      BY <1>2, <2>2, <2>3
    <2> QED
      BY <2>2, <2>4 DEF Row
  <1>9. \A r \in 1..Len(rows) : r # row => rows'[r] = rows[r]
    BY <1>1, <1>2, <1>3
  <1>10. rows' \in Seq(Row) /\ Len(rows') = Len(rows)
    <2>1. rows \in [1..Len(rows) -> Row] /\ Len(rows) \in Nat
      BY <1>1
    <2>2. rows' \in [1..Len(rows) -> Row]
      BY <2>1, <1>3, <1>8, <1>9
    <2> QED
      BY <2>1, <2>2
  <1>11. IF requests[q].key = Null THEN Moves(q, "done") ELSE Moves(q, "store")
    <2>1. CASE requests[q].key = Null
      BY <1>1, <1>4, <2>1, PcMoves DEF PC
    <2>2. CASE requests[q].key # Null
      BY <1>1, <1>4, <2>2, PcMoves DEF PC
    <2> QED
      BY <2>1, <2>2
  <1> QED
    BY <1>1, <1>2, <1>5, <1>8, <1>9, <1>10, <1>11
ChainClaim == [root : Roots, status : ChainStatus]
Message == [root : Roots, claim : ChainIds, status : ChainStatus]

\* A new status of a claim on the chain and the webhook call about it.
LEMMA StatusFacts ==
  ASSUME TypeOK, NEW c \in 1..Len(chainClaims), NEW s \in ChainStatus,
         chainClaims' = [chainClaims EXCEPT ![c].status = s],
         Notify(c, chainClaims')
  PROVE  /\ chainClaims' \in Seq(ChainClaim) /\ Len(chainClaims') = Len(chainClaims)
         /\ \A d \in 1..Len(chainClaims) :
              /\ chainClaims'[d].root = chainClaims[d].root
              /\ chainClaims'[d].status = IF d = c THEN s ELSE chainClaims[d].status
         /\ outbox' \in Seq(Message) /\ Len(outbox') = Len(outbox) + 1
         /\ sent' \in 0..MaxEvents
         /\ \A i \in 1..Len(outbox) : outbox'[i] = outbox[i]
         /\ outbox'[Len(outbox) + 1].root = chainClaims[c].root
         /\ outbox'[Len(outbox) + 1].status = s
  <1>1. /\ chainClaims \in Seq(ChainClaim) /\ outbox \in Seq(Message)
        /\ sent \in 0..MaxEvents /\ Len(chainClaims) <= MaxChainClaims
    BY DEF TypeOK, ChainClaim, Message
  <1>2. chainClaims \in [1..Len(chainClaims) -> ChainClaim] /\ Len(chainClaims) \in Nat
    BY <1>1
  <1>3. chainClaims[c] \in ChainClaim
    BY <1>2
  <1>4. chainClaims'[c] = [chainClaims[c] EXCEPT !.status = s]
    BY <1>2
  <1>5. /\ chainClaims'[c] \in ChainClaim /\ chainClaims'[c].status = s
        /\ chainClaims'[c].root = chainClaims[c].root
    BY <1>3, <1>4 DEF ChainClaim
  <1>6. \A d \in 1..Len(chainClaims) : d # c => chainClaims'[d] = chainClaims[d]
    BY <1>2
  <1>7. chainClaims' \in [1..Len(chainClaims) -> ChainClaim]
    BY <1>2, <1>5, <1>6
  <1>8. chainClaims' \in Seq(ChainClaim) /\ Len(chainClaims') = Len(chainClaims)
    BY <1>2, <1>7
  <1> DEFINE m == [root |-> chainClaims'[c].root, claim |-> c,
                   status |-> chainClaims'[c].status]
  <1>9. m \in Message /\ m.root = chainClaims[c].root /\ m.status = s
    BY <1>1, <1>2, <1>5, VerificationBounds DEF Message, ChainClaim, ChainIds
  <1>10. outbox' = Append(outbox, m) /\ sent < MaxEvents /\ sent' = sent + 1
    BY DEF Notify
  <1>11. sent' \in 0..MaxEvents
    BY <1>1, <1>10, VerificationBounds
  <1> HIDE DEF m
  <1>12. /\ outbox' \in Seq(Message) /\ Len(outbox') = Len(outbox) + 1
         /\ \A i \in 1..Len(outbox) : outbox'[i] = outbox[i]
         /\ outbox'[Len(outbox) + 1] = m
    BY <1>1, <1>9, <1>10, AppendProperties
  <1> QED
    BY <1>5, <1>6, <1>8, <1>9, <1>11, <1>12

\* A new claim on the chain and the webhook call about it.
LEMMA SubmitFacts ==
  ASSUME TypeOK, NEW root \in Roots, SubmitOnChain(root)
  PROVE  /\ chainClaims' \in Seq(ChainClaim)
         /\ Len(chainClaims') = Len(chainClaims) + 1 /\ Len(chainClaims') <= MaxChainClaims
         /\ \A d \in 1..Len(chainClaims) : chainClaims'[d] = chainClaims[d]
         /\ chainClaims'[Len(chainClaims) + 1].status = "submitted"
         /\ outbox' \in Seq(Message) /\ Len(outbox') = Len(outbox) + 1
         /\ sent' \in 0..MaxEvents
         /\ \A i \in 1..Len(outbox) : outbox'[i] = outbox[i]
         /\ outbox'[Len(outbox) + 1].status = "submitted"
  <1> DEFINE new == [root |-> root, status |-> "submitted"]
             c == Len(chainClaims) + 1
             m == [root |-> chainClaims'[c].root, claim |-> c,
                   status |-> chainClaims'[c].status]
  <1>1. /\ chainClaims \in Seq(ChainClaim) /\ outbox \in Seq(Message)
        /\ sent \in 0..MaxEvents /\ Len(chainClaims) \in Nat
    BY DEF TypeOK, ChainClaim, Message
  <1>2. /\ Len(chainClaims) < MaxChainClaims /\ chainClaims' = Append(chainClaims, new)
        /\ outbox' = Append(outbox, m) /\ sent < MaxEvents /\ sent' = sent + 1
    BY DEF SubmitOnChain, Notify
  <1>3. new \in ChainClaim /\ new.root = root /\ new.status = "submitted"
    BY DEF ChainClaim, ChainStatus, ClaimStatus
  <1> HIDE DEF new
  <1>4. /\ chainClaims' \in Seq(ChainClaim) /\ Len(chainClaims') = Len(chainClaims) + 1
        /\ \A d \in 1..Len(chainClaims) : chainClaims'[d] = chainClaims[d]
        /\ chainClaims'[c] = new
    BY <1>1, <1>2, <1>3, AppendProperties
  <1>5. m \in Message /\ m.status = "submitted"
    BY <1>1, <1>2, <1>3, <1>4, VerificationBounds
    DEF Message, ChainIds, ChainStatus, ClaimStatus
  <1>6. sent' \in 0..MaxEvents /\ Len(chainClaims') <= MaxChainClaims
    BY <1>1, <1>2, <1>4, VerificationBounds
  <1> HIDE DEF m
  <1>7. /\ outbox' \in Seq(Message) /\ Len(outbox') = Len(outbox) + 1
        /\ \A i \in 1..Len(outbox) : outbox'[i] = outbox[i]
        /\ outbox'[Len(outbox) + 1] = m
    BY <1>1, <1>2, <1>5, AppendProperties
  <1> QED
    BY <1>3, <1>4, <1>5, <1>6, <1>7

\* The insert stores the response under a free key, or finds the key taken.
LEMMA InsertFacts ==
  ASSUME RequestInv, NEW q \in Requests, InsertResponse(q)
  PROVE  /\ requests[q].pc = "insert" /\ requests[q].key \in Keys
         /\ calls[q] = "relayed"
         /\ \/ /\ idempotency[requests[q].key] = Null /\ Moves(q, "done")
               /\ idempotency' = [idempotency EXCEPT ![requests[q].key] = q]
            \/ /\ idempotency[requests[q].key] # Null /\ Moves(q, "conflict")
               /\ idempotency' = idempotency
  <1>1. requests \in [Requests -> Request] /\ requests[q].pc = "insert"
    BY DEF RequestInv, TypeOK, InsertResponse
  <1>2. requests[q].key \in Keys /\ calls[q] = "relayed"
    BY <1>1 DEF RequestInv, RequestStands
  <1>3. CASE idempotency[requests[q].key] = Null
    <2>1. /\ requests' = [requests EXCEPT ![q].pc = "done"]
          /\ idempotency' = [idempotency EXCEPT ![requests[q].key] = q]
      BY <1>3 DEF InsertResponse, Committed
    <2> QED
      BY <1>1, <1>2, <1>3, <2>1, PcMoves DEF PC
  <1>4. CASE idempotency[requests[q].key] # Null
    <2>1. requests' = [requests EXCEPT ![q].pc = "conflict"] /\ idempotency' = idempotency
      BY <1>4 DEF InsertResponse
    <2> QED
      BY <1>1, <1>2, <1>4, <2>1, PcMoves DEF PC
  <1> QED
    BY <1>3, <1>4

\* store_response finds a response and ends, or goes on to the insert.
LEMMA LookupFacts ==
  ASSUME RequestInv, NEW q \in Requests, store_response(q)
  PROVE  /\ requests[q].pc = "store" /\ requests[q].key \in Keys
         /\ \/ idempotency[requests[q].key] = Null /\ Moves(q, "insert")
            \/ idempotency[requests[q].key] # Null /\ Moves(q, "done")
  <1>1. requests \in [Requests -> Request] /\ requests[q].pc = "store"
    BY DEF RequestInv, TypeOK, store_response
  <1>2. requests[q].key \in Keys
    BY <1>1 DEF RequestInv, RequestStands
  <1>3. CASE idempotency[requests[q].key] = Null
    <2>1. requests' = [requests EXCEPT ![q].pc = "insert"]
      BY <1>3 DEF store_response
    <2> QED
      BY <1>1, <1>2, <1>3, <2>1, PcMoves DEF PC
  <1>4. CASE idempotency[requests[q].key] # Null
    <2>1. requests' = [requests EXCEPT ![q].pc = "done"]
      BY <1>4 DEF store_response
    <2> QED
      BY <1>1, <1>2, <1>4, <2>1, PcMoves DEF PC
  <1> QED
    BY <1>3, <1>4

\* The select of the webhook loads the one row with the root of the event, if any.
LEMMA SelectFacts ==
  ASSUME TypeOK, NEW fields, receive_onchain_event(fields)
  PROVE  /\ outbox # << >> /\ outbox' = Tail(outbox) /\ webhook = Null
         /\ \/ webhook' = Null
            \/ /\ webhook' \in Webhook /\ webhook'.row \in 1..Len(rows)
               /\ rows[webhook'.row].root = Head(outbox).root
               /\ webhook'.status = Head(outbox).status
  <1>1. /\ rows \in Seq(Row) /\ outbox \in Seq(Message) /\ outbox # << >>
        /\ outbox' = Tail(outbox) /\ webhook = Null
    BY DEF TypeOK, Message, receive_onchain_event
  <1>2. Head(outbox) \in Message
    BY <1>1, HeadTailProperties
  <1>3. CASE webhook' = webhook
    BY <1>1, <1>3
  <1>4. CASE webhook' # webhook
    <2>1. PICK r \in Matches(Head(outbox)) :
            webhook' = [row |-> r, loaded |-> rows[r].status,
                        claim |-> Head(outbox).claim, status |-> Head(outbox).status]
      BY <1>4 DEF receive_onchain_event
    <2>2. r \in 1..Len(rows) /\ rows[r].root = Head(outbox).root
      BY <2>1 DEF Matches
    <2>3. r \in RowIds
      BY <1>1, <2>2, VerificationBounds DEF TypeOK, RowIds
    <2>4. rows[r] \in Row
      BY <1>1, <2>2, ElementOfSeq
    <2>5. webhook' \in Webhook
      BY <1>2, <2>1, <2>3, <2>4 DEF Webhook, Row, Message
    <2> QED
      BY <1>1, <2>1, <2>2, <2>5
  <1> QED
    BY <1>3, <1>4

\* The commit of the webhook changes its one row, and takes the status from the event.
LEMMA EventFacts ==
  ASSUME RequestInv, CommitEvent
  PROVE  /\ rows' \in Seq(Row) /\ Len(rows') = Len(rows)
         /\ webhook # Null /\ webhook' = Null
         /\ \A r \in 1..Len(rows) :
              /\ rows'[r].root = rows[r].root
              /\ rows'[r].oracleRequestId = rows[r].oracleRequestId
              /\ \/ rows'[r].status = rows[r].status
                 \/ r = webhook.row /\ rows'[r].status = webhook.status
  <1> DEFINE row == webhook.row
             s == IF webhook.status = webhook.loaded THEN rows[row].status ELSE webhook.status
             c == webhook.claim
  <1>1. /\ rows \in Seq(Row) /\ webhook \in Webhook /\ webhook # Null
        /\ webhook' = Null /\ row \in 1..Len(rows)
    BY DEF RequestInv, TypeOK, CommitEvent
  <1>2. rows[row] \in Row
    BY <1>1, ElementOfSeq
  <1>3. s \in {rows[row].status, webhook.status} /\ s \in ClaimStatus /\ c \in ChainIds
    BY <1>1, <1>2 DEF Row, Webhook, ChainStatus
  <1>4. rows' = [rows EXCEPT ![row].onchainClaimId = c, ![row].status = s]
    <2>1. [rows EXCEPT ![row].onchainClaimId = c][row].status = rows[row].status
      BY <1>1, <1>2 DEF Row
    <2> QED
      BY <1>1, <1>2, <2>1 DEF CommitEvent
  <1> HIDE DEF s, c
  <1> DEFINE mid == [rows EXCEPT ![row].onchainClaimId = c]
  <1>5. rows \in [1..Len(rows) -> Row] /\ Len(rows) \in Nat
    BY <1>1
  <1>6. /\ mid[row] \in Row /\ mid[row].root = rows[row].root
        /\ mid[row].oracleRequestId = rows[row].oracleRequestId
        /\ DOMAIN mid = 1..Len(rows)
    BY <1>1, <1>2, <1>3, <1>5 DEF Row
  <1>7. rows' = [mid EXCEPT ![row].status = s]
    BY <1>4
  <1>8. \A r \in 1..Len(rows) : r # row => mid[r] = rows[r]
    BY <1>1, <1>5
  <1> HIDE DEF mid
  <1>9. rows'[row] = [mid[row] EXCEPT !.status = s]
    BY <1>1, <1>6, <1>7
  <1>10. /\ rows'[row] \in Row /\ rows'[row].root = rows[row].root
         /\ rows'[row].oracleRequestId = rows[row].oracleRequestId /\ rows'[row].status = s
    BY <1>3, <1>6, <1>9 DEF Row
  <1>11. \A r \in 1..Len(rows) : r # row => rows'[r] = rows[r]
    BY <1>1, <1>6, <1>7, <1>8
  <1>12. rows' \in [1..Len(rows) -> Row]
    BY <1>5, <1>6, <1>7, <1>10, <1>11
  <1>13. rows' \in Seq(Row) /\ Len(rows') = Len(rows)
    BY <1>5, <1>12
  <1> QED
    BY <1>1, <1>3, <1>10, <1>11, <1>13

\* The service answers without a trace, or decides the claim with the row's id.
LEMMA VerifyFacts ==
  ASSUME RequestInv, NEW q \in Requests, NEW b \in BOOLEAN, verify(q, b)
  PROVE  /\ calls[q] = "sent" /\ Moves(q, requests[q].pc)
         /\ UNCHANGED <<rows, idempotency, everPaid, overlapped, webhook>>
         /\ \/ /\ calls' = [calls EXCEPT ![q] = "refused"]
               /\ UNCHANGED <<chainClaims, target, outbox, sent>>
            \/ /\ \E x \in {"relayed", "unconfirmed"} : calls' = [calls EXCEPT ![q] = x]
               /\ target' \in [Requests -> ChainIds \cup {Null}]
               /\ \E c \in 1..Len(chainClaims), s \in {"approved", "rejected"} :
                    /\ chainClaims' = [chainClaims EXCEPT ![c].status = s]
                    /\ Notify(c, chainClaims')
  <1> DEFINE a == evaluateClaim(rows[requests[q].row].amount)
             row == requests[q].row
  <1>1. /\ requests \in [Requests -> Request] /\ rows \in Seq(Row)
        /\ chainClaims \in Seq(ChainClaim) /\ Len(chainClaims) \in Nat
        /\ Len(chainClaims) <= MaxChainClaims
        /\ target \in [Requests -> ChainIds \cup {Null}]
    BY DEF RequestInv, TypeOK, ChainClaim
  <1>2. /\ calls[q] = "sent"
        /\ requests' = [requests EXCEPT ![q].approved = a]
        /\ UNCHANGED <<rows, idempotency, everPaid, overlapped, webhook>>
        /\ submitVerificationOnChain(q, row, a, b)
    BY DEF verify, ClaimIdOf
  <1>3. row \in 1..Len(rows)
    BY <1>2 DEF RequestInv, RequestStands
  <1>4. a \in BOOLEAN
    <2>1. rows[row] \in Row
      BY <1>1, <1>3, ElementOfSeq
    <2>2. rows[row].amount \in Nat
      BY <2>1 DEF Row
    <2>3. /\ (rows[row].amount > 0) \in BOOLEAN
          /\ (rows[row].amount <= Threshold) \in BOOLEAN
      BY <2>2, VerificationBounds
    <2> QED
      BY <2>3, Zenon DEF evaluateClaim
  <1> HIDE DEF a
  <1>5. Moves(q, requests[q].pc)
    <2>1. requests[q] \in Request
      BY <1>1
    <2>2. requests'[q] = [requests[q] EXCEPT !.approved = a]
      BY <1>1, <1>2
    <2>3. /\ requests'[q].pc = requests[q].pc /\ requests'[q].row = requests[q].row
          /\ requests'[q].key = requests[q].key
      BY <2>1, <2>2 DEF Request
    <2>4. requests'[q] \in Request
      BY <1>4, <2>1, <2>2, Zenon DEF Request
    <2>5. \A p \in Requests : p # q => requests'[p] = requests[p]
      BY <1>1, <1>2
    <2>6. requests' \in [Requests -> Request]
      BY <1>1, <1>2, <2>4, <2>5
    <2> QED
      BY <2>3, <2>5, <2>6 DEF Moves
  <1>6. CASE row > Len(chainClaims)
    BY <1>2, <1>5, <1>6 DEF submitVerificationOnChain
  <1>7. CASE ~(row > Len(chainClaims))
    <2>1. row \in 1..Len(chainClaims) /\ row \in ChainIds
      BY <1>1, <1>3, <1>7, VerificationBounds DEF ChainIds
    <2>2. /\ calls' = [calls EXCEPT ![q] = IF b THEN "relayed" ELSE "unconfirmed"]
          /\ chainClaims' = [chainClaims EXCEPT ![row].status =
                               IF a THEN "approved" ELSE "rejected"]
          /\ target' = [target EXCEPT ![q] = row]
          /\ Notify(row, chainClaims')
      BY <1>2, <1>7 DEF submitVerificationOnChain
    <2>3. target' \in [Requests -> ChainIds \cup {Null}]
      BY <1>1, <2>1, <2>2
    <2>4. \E x \in {"relayed", "unconfirmed"} : calls' = [calls EXCEPT ![q] = x]
      BY <2>2
    <2>5. \E s \in {"approved", "rejected"} :
            chainClaims' = [chainClaims EXCEPT ![row].status = s]
      BY <2>2
    <2> QED
      BY <1>2, <1>5, <2>1, <2>2, <2>3, <2>4, <2>5
  <1> QED
    BY <1>6, <1>7

\* A request starts with its row and key, or returns the stored response.
LEMMA TriggerFacts ==
  ASSUME TypeOK, NEW q \in Requests, NEW r \in RowIds, NEW k \in Keys \cup {Null},
         trigger_verification(q, r, k)
  PROVE  /\ requests[q].pc = "new" /\ requests' \in [Requests -> Request]
         /\ requests'[q].row = r /\ requests'[q].key = k
         /\ \A p \in Requests : p # q => requests'[p] = requests[p]
         /\ IF k # Null /\ idempotency[k] # Null
            THEN requests'[q].pc = "done" ELSE requests'[q].pc = "load"
         /\ overlapped' \subseteq Keys /\ overlapped \subseteq overlapped'
         /\ k # Null /\ (\E p \in Requests : requests[p].key = k /\ InFlight(p))
              => k \in overlapped'
  <1> DEFINE x == IF Cached(k) THEN "done" ELSE "load"
             new == [FreshRequest EXCEPT !.pc = x, !.row = r, !.key = k]
  <1>1. /\ requests \in [Requests -> Request] /\ overlapped \subseteq Keys
        /\ requests[q].pc = "new" /\ requests' = [requests EXCEPT ![q] = new]
    BY DEF TypeOK, trigger_verification
  <1>2. x \in {"done", "load"}
        /\ IF k # Null /\ idempotency[k] # Null THEN x = "done" ELSE x = "load"
    BY DEF Cached
  <1> HIDE DEF x
  <1>3. FreshRequest \in Request
    BY DEF FreshRequest, Request
  <1>4. new \in Request /\ new.pc = x /\ new.row = r /\ new.key = k
    BY <1>2, <1>3 DEF Request
  <1> HIDE DEF new
  <1>5. /\ requests'[q] = new /\ requests' \in [Requests -> Request]
        /\ \A p \in Requests : p # q => requests'[p] = requests[p]
    BY <1>1, <1>4
  <1>6. overlapped' \subseteq Keys /\ overlapped \subseteq overlapped'
    BY <1>1 DEF trigger_verification
  <1>7. k # Null /\ (\E p \in Requests : requests[p].key = k /\ InFlight(p))
          => k \in overlapped'
    BY DEF trigger_verification
  <1> QED
    BY <1>1, <1>2, <1>4, <1>5, <1>6, <1>7
-----------------------------------------------------------------------------
(* RequestInv *)

\* There are no rows and no requests at first.
LEMMA RequestInit == Init => RequestInv
  <1> SUFFICES ASSUME Init PROVE RequestInv
    OBVIOUS
  <1>1. FreshRequest \in Request
    BY DEF FreshRequest, Request
  <1>2. TypeOK
    BY <1>1, VerificationBounds DEF Init, TypeOK
  <1>3. \A q \in Requests : RequestStands(q)
    BY DEF Init, RequestStands, FreshRequest
  <1> QED
    BY <1>2, <1>3 DEF RequestInv, Init

\* A request that a step leaves alone stands as before: rows are not deleted
\* and stored responses are not dropped.
LEMMA Kept ==
  ASSUME TypeOK, NEW p \in Requests, RequestStands(p),
         requests'[p] = requests[p], calls'[p] = calls[p],
         Len(rows') \in Nat, Len(rows') >= Len(rows),
         \A k \in Keys : idempotency[k] # Null => idempotency'[k] # Null
  PROVE  RequestStands(p)'
  <1>1. Len(rows) \in Nat
    BY DEF TypeOK
  <1>2. 1..Len(rows) \subseteq 1..Len(rows')
    BY <1>1
  <1> QED
    BY <1>2 DEF RequestStands

\* A step that changes rows or the chain, and no request.
LEMMA KeptAll ==
  ASSUME RequestInv, UNCHANGED <<requests, calls, idempotency>>,
         Len(rows') \in Nat, Len(rows') >= Len(rows), TypeOK',
         webhook' \in {webhook, Null} \/ webhook'.row \in 1..Len(rows)
  PROVE  RequestInv'
  <1>1. ASSUME NEW p \in Requests PROVE RequestStands(p)'
    BY Kept DEF RequestInv
  <1>2. 1..Len(rows) \subseteq 1..Len(rows')
    BY DEF RequestInv, TypeOK
  <1>3. webhook' # Null => webhook'.row \in 1..Len(rows')
    BY <1>2 DEF RequestInv
  <1> QED
    BY <1>1, <1>3 DEF RequestInv

\* A step of one request that leaves all others and the number of rows alone.
LEMMA KeptOthers ==
  ASSUME RequestInv, NEW q \in Requests,
         \A p \in Requests : p # q => requests'[p] = requests[p] /\ calls'[p] = calls[p],
         Len(rows') = Len(rows),
         \A k \in Keys : idempotency[k] # Null => idempotency'[k] # Null,
         TypeOK', RequestStands(q)', webhook' = webhook
  PROVE  RequestInv'
  <1>1. Len(rows') \in Nat /\ Len(rows') >= Len(rows)
    BY DEF RequestInv, TypeOK
  <1>2. ASSUME NEW p \in Requests, p # q PROVE RequestStands(p)'
    BY <1>1, <1>2, Kept DEF RequestInv
  <1> QED
    BY <1>2 DEF RequestInv

\* The chain's own steps.
LEMMA ChainKeeps ==
  ASSUME RequestInv,
         \/ \E root \in Roots : SubmitOnChain(root)
         \/ \E c \in ChainIds, s \in ManualStatuses : SetStatusOnChain(c, s)
  PROVE  RequestInv'
  <1>1. TypeOK
    BY DEF RequestInv
  <1>2. ASSUME NEW root \in Roots, SubmitOnChain(root)
        PROVE  RequestInv'
    <2>1. UNCHANGED <<rows, idempotency, requests, calls, target, everPaid, overlapped,
                      webhook>>
      BY <1>2 DEF SubmitOnChain
    <2>2. /\ chainClaims' \in Seq(ChainClaim) /\ Len(chainClaims') <= MaxChainClaims
          /\ outbox' \in Seq(Message) /\ sent' \in 0..MaxEvents
      BY <1>1, <1>2, SubmitFacts
    <2>3. TypeOK'
      BY <1>1, <2>1, <2>2 DEF TypeOK, ChainClaim, Message
    <2>4. Len(rows') \in Nat /\ Len(rows') >= Len(rows)
      BY <1>1, <2>1 DEF TypeOK
    <2> QED
      BY <2>1, <2>3, <2>4, KeptAll
  <1>3. ASSUME NEW c \in ChainIds, NEW s \in ManualStatuses, SetStatusOnChain(c, s)
        PROVE  RequestInv'
    <2>1. /\ UNCHANGED <<rows, idempotency, requests, calls, target, overlapped, webhook>>
          /\ chainClaims' = [chainClaims EXCEPT ![c].status = s]
          /\ Notify(c, chainClaims') /\ c <= Len(chainClaims)
      BY <1>3 DEF SetStatusOnChain
    <2>2. c \in 1..Len(chainClaims) /\ s \in ChainStatus
      BY <1>1, <2>1, VerificationBounds DEF TypeOK, ChainIds, ChainStatus, ClaimStatus
    <2>3. /\ chainClaims' \in Seq(ChainClaim) /\ Len(chainClaims') = Len(chainClaims)
          /\ outbox' \in Seq(Message) /\ sent' \in 0..MaxEvents
      BY <1>1, <2>1, <2>2, StatusFacts
    <2>4. everPaid' \subseteq Roots
      <3>1. chainClaims[c].root \in Roots
        <4>1. chainClaims \in Seq(ChainClaim)
          BY <1>1 DEF TypeOK, ChainClaim
        <4>2. chainClaims[c] \in ChainClaim
          BY <2>2, <4>1, ElementOfSeq
        <4> QED
          BY <4>2 DEF ChainClaim
      <3> QED
        BY <1>1, <1>3, <3>1 DEF SetStatusOnChain, TypeOK
    <2>5. TypeOK'
      BY <1>1, <2>1, <2>3, <2>4 DEF TypeOK, ChainClaim, Message
    <2>6. Len(rows') \in Nat /\ Len(rows') >= Len(rows)
      BY <1>1, <2>1 DEF TypeOK
    <2> QED
      BY <2>1, <2>5, <2>6, KeptAll
  <1> QED
    BY <1>2, <1>3

\* Filing a claim, the webhook and its losses.
LEMMA RowsKeep ==
  ASSUME RequestInv,
         \/ \E root \in Roots \cup {Null}, n \in DeclaredAmounts : create_claim(root, n)
         \/ \E fields \in Payloads : receive_onchain_event(fields)
         \/ CommitEvent \/ LoseEvent
  PROVE  RequestInv'
  <1>1. TypeOK /\ rows \in Seq(Row) /\ Len(rows) \in Nat /\ outbox \in Seq(Message)
    BY DEF RequestInv, TypeOK, Message
  <1>2. ASSUME NEW root \in Roots \cup {Null}, NEW n \in DeclaredAmounts,
               create_claim(root, n)
        PROVE  RequestInv'
    <2> DEFINE new == [root |-> root, amount |-> n, status |-> "draft",
                       onchainClaimId |-> Null, oracleRequestId |-> Null]
    <2>1. /\ Len(rows) < MaxRows /\ rows' = Append(rows, new)
          /\ UNCHANGED <<idempotency, requests, calls, chainClaims, outbox, sent,
                         target, everPaid, overlapped, webhook>>
      BY <1>2 DEF create_claim
    <2>2. new \in Row
      BY VerificationBounds DEF Row, ClaimStatus
    <2> HIDE DEF new
    <2>3. rows' \in Seq(Row) /\ Len(rows') = Len(rows) + 1
      BY <1>1, <2>1, <2>2, AppendProperties
    <2>4. Len(rows') <= MaxRows /\ Len(rows') \in Nat /\ Len(rows') >= Len(rows)
      BY <1>1, <2>1, <2>3, VerificationBounds
    <2>5. TypeOK'
      BY <1>1, <2>1, <2>3, <2>4 DEF TypeOK
    <2> QED
      BY <2>1, <2>4, <2>5, KeptAll
  <1>3. ASSUME outbox # << >>, outbox' = Tail(outbox)
        PROVE  outbox' \in Seq(Message)
    BY <1>1, <1>3, HeadTailProperties
  <1>4. ASSUME NEW fields \in Payloads, receive_onchain_event(fields)
        PROVE  RequestInv'
    <2>1. /\ outbox # << >> /\ outbox' = Tail(outbox)
          /\ webhook' = Null \/ (webhook' \in Webhook /\ webhook'.row \in 1..Len(rows))
      BY <1>1, <1>4, SelectFacts
    <2>2. UNCHANGED <<rows, idempotency, requests, calls, chainClaims, sent, target,
                      everPaid, overlapped>>
      BY <1>4 DEF receive_onchain_event
    <2>3. TypeOK'
      BY <1>1, <1>3, <2>1, <2>2 DEF TypeOK, Message
    <2>4. Len(rows') \in Nat /\ Len(rows') >= Len(rows)
      BY <1>1, <2>2
    <2> QED
      BY <2>1, <2>2, <2>3, <2>4, KeptAll
  <1>5. CASE CommitEvent
    <2>1. rows' \in Seq(Row) /\ Len(rows') = Len(rows) /\ webhook' = Null
      BY <1>5, EventFacts
    <2>2. UNCHANGED <<idempotency, requests, calls, chainClaims, outbox, sent, target,
                      everPaid, overlapped>>
      BY <1>5 DEF CommitEvent
    <2>3. TypeOK'
      BY <1>1, <2>1, <2>2 DEF TypeOK
    <2>4. Len(rows') \in Nat /\ Len(rows') >= Len(rows)
      BY <1>1, <2>1
    <2> QED
      BY <2>1, <2>2, <2>3, <2>4, KeptAll
  <1>6. CASE LoseEvent
    <2>1. /\ outbox' = outbox \/ (outbox # << >> /\ outbox' = Tail(outbox))
          /\ webhook' = Null
          /\ UNCHANGED <<rows, idempotency, requests, calls, chainClaims, sent, target,
                         everPaid, overlapped>>
      BY <1>6 DEF LoseEvent
    <2>2. TypeOK'
      BY <1>1, <1>3, <2>1 DEF TypeOK, Message
    <2>3. Len(rows') \in Nat /\ Len(rows') >= Len(rows)
      BY <1>1, <2>1
    <2> QED
      BY <2>1, <2>2, <2>3, KeptAll
  <1> QED
    BY <1>2, <1>4, <1>5, <1>6

\* trigger_verification and LoadAndCall.
LEMMA StartKeeps ==
  ASSUME RequestInv, NEW q \in Requests,
         \/ \E r \in RowIds, k \in Keys \cup {Null} : trigger_verification(q, r, k)
         \/ LoadAndCall(q)
  PROVE  RequestInv'
  <1>1. TypeOK /\ RequestStands(q)
        /\ calls \in [Requests -> {"none", "sent", "relayed", "unconfirmed", "refused"}]
    BY DEF RequestInv, TypeOK
  <1>2. ASSUME NEW r \in RowIds, NEW k \in Keys \cup {Null}, trigger_verification(q, r, k)
        PROVE  RequestInv'
    <2>1. UNCHANGED <<rows, idempotency, calls, chainClaims, outbox, sent, target, everPaid,
                      webhook>>
      BY <1>2 DEF trigger_verification
    <2>2. /\ requests[q].pc = "new" /\ requests' \in [Requests -> Request]
          /\ requests'[q].row = r /\ requests'[q].pc \in {"done", "load"}
          /\ \A p \in Requests : p # q => requests'[p] = requests[p]
          /\ overlapped' \subseteq Keys
      BY <1>1, <1>2, TriggerFacts
    <2>3. TypeOK'
      BY <1>1, <2>1, <2>2 DEF TypeOK
    <2>4. RequestStands(q)'
      BY <1>1, <2>1, <2>2 DEF RequestStands
    <2> QED
      BY <2>1, <2>2, <2>3, <2>4, KeptOthers
  <1>3. CASE LoadAndCall(q)
    <2>1. UNCHANGED <<rows, idempotency, chainClaims, outbox, sent, target, everPaid,
                      overlapped, webhook>>
      BY <1>3 DEF LoadAndCall
    <2>2. /\ requests[q].pc = "load"
          /\ \/ Moves(q, "done") /\ calls' = calls
             \/ /\ Moves(q, "calling") /\ requests[q].row \in 1..Len(rows)
                /\ calls' = [calls EXCEPT ![q] = "sent"]
      BY <1>3, LoadFacts
    <2>3. TypeOK'
      BY <1>1, <2>1, <2>2 DEF TypeOK, Moves
    <2>4. \A p \in Requests : p # q => requests'[p] = requests[p] /\ calls'[p] = calls[p]
      BY <1>1, <2>2 DEF Moves
    <2>5. RequestStands(q)'
      BY <1>1, <2>1, <2>2 DEF RequestStands, Moves
    <2> QED
      BY <2>1, <2>3, <2>4, <2>5, KeptOthers
  <1> QED
    BY <1>2, <1>3

\* ReceiveAnswer, CommitVerdict, store_response, its insert and Interrupt.
LEMMA FinishKeeps ==
  ASSUME RequestInv, NEW q \in Requests,
         \/ ReceiveAnswer(q) \/ CommitVerdict(q) \/ store_response(q)
         \/ InsertResponse(q) \/ Interrupt(q)
  PROVE  RequestInv'
  <1>1. /\ TypeOK /\ RequestStands(q) /\ requests \in [Requests -> Request]
        /\ idempotency \in [Keys -> Requests \cup {Null}]
    BY DEF RequestInv, TypeOK
  <1>2. requests[q].pc \in PC /\ requests[q].key \in Keys \cup {Null}
    BY <1>1 DEF Request, PC
  <1>3. CASE ReceiveAnswer(q)
    <2>1. UNCHANGED <<rows, idempotency, calls, chainClaims, outbox, sent, target,
                      everPaid, overlapped, webhook>>
      BY <1>3 DEF ReceiveAnswer
    <2>2. /\ requests[q].pc = "calling"
          /\ \/ Moves(q, "answered") /\ calls[q] = "relayed"
            \/ Moves(q, "dead")
      BY <1>3, AnswerFacts
    <2>3. TypeOK'
      BY <1>1, <2>1, <2>2 DEF TypeOK, Moves
    <2>4. RequestStands(q)'
      BY <1>1, <2>1, <2>2 DEF RequestStands, Moves
    <2> QED
      BY <2>1, <2>2, <2>3, <2>4, KeptOthers DEF Moves
  <1>4. CASE CommitVerdict(q)
    <2>1. UNCHANGED <<idempotency, calls, chainClaims, outbox, sent, target, everPaid,
                      overlapped, webhook>>
      BY <1>4 DEF CommitVerdict
    <2>2. /\ requests[q].pc = "answered" /\ requests[q].row \in 1..Len(rows)
          /\ IF requests[q].key = Null THEN Moves(q, "done") ELSE Moves(q, "store")
          /\ rows' \in Seq(Row) /\ Len(rows') = Len(rows)
      BY <1>4, CommitFacts
    <2>3. TypeOK'
      BY <1>1, <2>1, <2>2 DEF TypeOK, Moves
    <2>4. RequestStands(q)'
      BY <1>1, <1>2, <2>1, <2>2, VerificationBounds DEF RequestStands, Moves
    <2> QED
      BY <2>1, <2>2, <2>3, <2>4, KeptOthers DEF Moves
  <1>5. CASE store_response(q)
    <2>1. UNCHANGED <<rows, idempotency, calls, chainClaims, outbox, sent, target,
                      everPaid, overlapped, webhook>>
      BY <1>5 DEF store_response
    <2>2. /\ requests[q].pc = "store" /\ requests[q].key \in Keys
          /\ \/ Moves(q, "insert")
             \/ idempotency[requests[q].key] # Null /\ Moves(q, "done")
      BY <1>5, LookupFacts
    <2>3. TypeOK'
      BY <1>1, <2>1, <2>2 DEF TypeOK, Moves
    <2>4. RequestStands(q)'
      BY <1>1, <2>1, <2>2 DEF RequestStands, Moves
    <2> QED
      BY <2>1, <2>2, <2>3, <2>4, KeptOthers DEF Moves
  <1>6. CASE InsertResponse(q)
    <2>1. UNCHANGED <<rows, calls, chainClaims, outbox, sent, target, everPaid,
                      overlapped, webhook>>
      BY <1>6 DEF InsertResponse
    <2>2. /\ requests[q].pc = "insert" /\ requests[q].key \in Keys
          /\ \/ /\ idempotency[requests[q].key] = Null /\ Moves(q, "done")
                /\ idempotency' = [idempotency EXCEPT ![requests[q].key] = q]
             \/ /\ idempotency[requests[q].key] # Null /\ Moves(q, "conflict")
                /\ idempotency' = idempotency
      BY <1>6, InsertFacts
    <2>3. /\ idempotency' \in [Keys -> Requests \cup {Null}]
          /\ idempotency'[requests[q].key] # Null
          /\ \A k \in Keys : idempotency[k] # Null => idempotency'[k] # Null
      BY <1>1, <2>2, VerificationBounds
    <2>4. \/ Moves(q, "done") \/ Moves(q, "conflict")
      BY <2>2
    <2>5. TypeOK'
      BY <1>1, <2>1, <2>3, <2>4 DEF TypeOK, Moves
    <2>6. RequestStands(q)'
      BY <1>1, <2>1, <2>2, <2>3, <2>4 DEF RequestStands, Moves
    <2> QED
      BY <2>1, <2>3, <2>4, <2>5, <2>6, KeptOthers DEF Moves
  <1>7. CASE Interrupt(q)
    <2>1. UNCHANGED <<rows, idempotency, calls, chainClaims, outbox, sent, target,
                      everPaid, overlapped, webhook>>
      BY <1>7 DEF Interrupt
    <2>2. Moves(q, "dead") /\ InFlight(q)
      BY <1>1, <1>7, PcMoves DEF Interrupt, PC
    <2>3. TypeOK'
      BY <1>1, <2>1, <2>2 DEF TypeOK, Moves
    <2>4. RequestStands(q)'
      BY <1>1, <2>1, <2>2 DEF RequestStands, Moves, InFlight
    <2> QED
      BY <2>1, <2>2, <2>3, <2>4, KeptOthers DEF Moves
  <1> QED
    BY <1>3, <1>4, <1>5, <1>6, <1>7

\* The oracle service's part of a request.
LEMMA ServiceKeeps ==
  ASSUME RequestInv, NEW q \in Requests,
         (\E b \in BOOLEAN : verify(q, b)) \/ VerifyFails(q)
  PROVE  RequestInv'
  <1> DEFINE Outcome == {"none", "sent", "relayed", "unconfirmed", "refused"}
  <1>1. /\ TypeOK /\ RequestStands(q) /\ requests \in [Requests -> Request]
        /\ calls \in [Requests -> Outcome]
    BY DEF RequestInv, TypeOK
  <1>2. ASSUME calls[q] = "sent", Moves(q, requests[q].pc),
               NEW x \in {"refused", "relayed", "unconfirmed"},
               calls' = [calls EXCEPT ![q] = x], UNCHANGED <<rows, idempotency>>
        PROVE  /\ calls' \in [Requests -> Outcome] /\ RequestStands(q)'
               /\ \A p \in Requests :
                    p # q => requests'[p] = requests[p] /\ calls'[p] = calls[p]
    <2>1. calls' \in [Requests -> Outcome] /\ calls'[q] = x
          /\ \A p \in Requests : p # q => calls'[p] = calls[p]
      BY <1>1, <1>2
    <2>2. /\ requests'[q].pc = requests[q].pc /\ requests'[q].row = requests[q].row
          /\ requests'[q].key = requests[q].key
      BY <1>2 DEF Moves
    <2>3. requests[q].pc \notin {"new", "load", "answered", "store", "insert", "conflict"}
      BY <1>1, <1>2 DEF RequestStands
    <2> QED
      BY <1>1, <1>2, <2>1, <2>2, <2>3 DEF RequestStands, Moves
  <1>3. ASSUME NEW b \in BOOLEAN, verify(q, b)
        PROVE  RequestInv'
    <2>1. /\ calls[q] = "sent" /\ Moves(q, requests[q].pc)
          /\ UNCHANGED <<rows, idempotency, everPaid, overlapped, webhook>>
      BY <1>3, VerifyFacts
    <2>2. CASE /\ calls' = [calls EXCEPT ![q] = "refused"]
               /\ UNCHANGED <<chainClaims, target, outbox, sent>>
      <3>1. /\ calls' \in [Requests -> Outcome] /\ RequestStands(q)'
            /\ \A p \in Requests :
                 p # q => requests'[p] = requests[p] /\ calls'[p] = calls[p]
        BY <1>2, <2>1, <2>2
      <3>2. TypeOK'
        BY <1>1, <2>1, <2>2, <3>1 DEF TypeOK, Moves
      <3> QED
        BY <2>1, <3>1, <3>2, KeptOthers
    <2>3. CASE /\ \E x \in {"relayed", "unconfirmed"} : calls' = [calls EXCEPT ![q] = x]
               /\ target' \in [Requests -> ChainIds \cup {Null}]
               /\ \E c \in 1..Len(chainClaims), s \in {"approved", "rejected"} :
                    /\ chainClaims' = [chainClaims EXCEPT ![c].status = s]
                    /\ Notify(c, chainClaims')
      <3>1. /\ calls' \in [Requests -> Outcome] /\ RequestStands(q)'
            /\ \A p \in Requests :
                 p # q => requests'[p] = requests[p] /\ calls'[p] = calls[p]
        BY <1>2, <2>1, <2>3
      <3>2. PICK c \in 1..Len(chainClaims), s \in {"approved", "rejected"} :
              /\ chainClaims' = [chainClaims EXCEPT ![c].status = s]
              /\ Notify(c, chainClaims')
        BY <2>3
      <3>3. s \in ChainStatus
        BY <3>2 DEF ChainStatus, ClaimStatus
      <3>4. /\ chainClaims' \in Seq(ChainClaim) /\ Len(chainClaims') = Len(chainClaims)
            /\ outbox' \in Seq(Message) /\ sent' \in 0..MaxEvents
        BY <1>1, <3>2, <3>3, StatusFacts
      <3>5. TypeOK'
        BY <1>1, <2>1, <2>3, <3>1, <3>4 DEF TypeOK, Moves, ChainClaim, Message
      <3> QED
        BY <2>1, <3>1, <3>5, KeptOthers
    <2> QED
      BY <1>3, <2>2, <2>3, VerifyFacts
  <1>4. CASE VerifyFails(q)
    <2>1. /\ calls[q] = "sent" /\ calls' = [calls EXCEPT ![q] = "refused"]
          /\ UNCHANGED <<rows, idempotency, requests, chainClaims, outbox, sent, target,
                         everPaid, overlapped, webhook>>
      BY <1>4 DEF VerifyFails
    <2>2. Moves(q, requests[q].pc)
      BY <1>1, <2>1 DEF Moves
    <2>3. /\ calls' \in [Requests -> Outcome] /\ RequestStands(q)'
          /\ \A p \in Requests : p # q => requests'[p] = requests[p] /\ calls'[p] = calls[p]
      BY <1>2, <2>1, <2>2
    <2>4. TypeOK'
      BY <1>1, <2>1, <2>3 DEF TypeOK
    <2> QED
      BY <2>1, <2>3, <2>4, KeptOthers
  <1> QED
    BY <1>3, <1>4

\* Every step keeps RequestInv.
LEMMA RequestNext == RequestInv /\ [Next]_vars => RequestInv'
  <1> SUFFICES ASSUME RequestInv, [Next]_vars PROVE RequestInv'
    OBVIOUS
  <1>1. CASE UNCHANGED vars
    BY <1>1 DEF vars, RequestInv, RequestStands, TypeOK
  <1> QED
    BY <1>1, ChainKeeps, RowsKeep, StartKeeps, FinishKeeps, ServiceKeeps DEF Next

\* Every row, request, call and webhook message is well formed in every
\* reachable state of the backend, for any number of requests, keys and claims.
THEOREM VerificationTypeCorrect == Spec => []TypeOK
  <1>1. RequestInv => TypeOK
    BY DEF RequestInv
  <1> QED
    BY <1>1, RequestInit, RequestNext, PTL DEF Spec
-----------------------------------------------------------------------------
(* A key that decided twice *)

\* What every step but trigger_verification leaves of a request.
Tame(p) ==
  /\ requests'[p].row = requests[p].row /\ requests'[p].key = requests[p].key
  /\ Active(p)' => Active(p)
  /\ ~InFlight(p) => requests'[p].pc = requests[p].pc
  /\ requests'[p].pc = "conflict" => requests[p].pc = "conflict" \/ InsertResponse(p)
  /\ calls[p] = "relayed" => calls'[p] = "relayed"

\* A request under way, or whose call is at the service, makes a tame step.
LEMMA ActiveMoves ==
  ASSUME NEW q \in Requests, NEW x \in PC, Moves(q, x), Active(q),
         ~InFlight(q) => x = requests[q].pc,
         x = "conflict" => requests[q].pc = "conflict" \/ InsertResponse(q),
         calls' = calls \/ (/\ calls[q] # "relayed"
                            /\ \A p \in Requests : p # q => calls'[p] = calls[p]),
         NEW p \in Requests
  PROVE  Tame(p)
  <1>1. CASE p = q
    BY <1>1 DEF Tame, Moves, Active
  <1>2. CASE p # q
    BY <1>2 DEF Tame, Moves, Active, InFlight
  <1> QED
    BY <1>1, <1>2

\* Every step is tame for all requests or starts one.
LEMMA Steps ==
  ASSUME RequestInv, [Next]_vars
  PROVE  \/ overlapped' = overlapped /\ \A p \in Requests : Tame(p)
         \/ \E q \in Requests, r \in RowIds, k \in Keys \cup {Null} :
              trigger_verification(q, r, k)
  <1>1. /\ TypeOK /\ requests \in [Requests -> Request]
        /\ calls \in [Requests -> {"none", "sent", "relayed", "unconfirmed", "refused"}]
    BY DEF RequestInv, TypeOK
  <1>2. ASSUME UNCHANGED <<requests, calls>>, NEW p \in Requests
        PROVE  Tame(p)
    BY <1>2 DEF Tame, Active, InFlight
  <1>3. CASE \/ UNCHANGED vars
             \/ \E root \in Roots : SubmitOnChain(root)
             \/ \E c \in ChainIds, s \in ManualStatuses : SetStatusOnChain(c, s)
             \/ \E root \in Roots \cup {Null}, n \in DeclaredAmounts : create_claim(root, n)
             \/ \E fields \in Payloads : receive_onchain_event(fields)
             \/ CommitEvent \/ LoseEvent
    <2>1. UNCHANGED <<requests, calls, overlapped>>
      BY <1>3 DEF vars, SubmitOnChain, SetStatusOnChain, create_claim,
                  receive_onchain_event, CommitEvent, LoseEvent
    <2> QED
      BY <1>2, <2>1
  <1>4. ASSUME NEW q \in Requests, LoadAndCall(q)
        PROVE  overlapped' = overlapped /\ \A p \in Requests : Tame(p)
    <2>1. /\ requests[q].pc = "load"
          /\ \/ Moves(q, "done") /\ calls' = calls
             \/ Moves(q, "calling") /\ calls' = [calls EXCEPT ![q] = "sent"]
      BY <1>4, LoadFacts
    <2>2. Active(q) /\ InFlight(q) /\ calls[q] = "none"
      BY <2>1 DEF Active, InFlight, RequestInv, RequestStands
    <2>3. overlapped' = overlapped
      BY <1>4 DEF LoadAndCall
    <2>4. CASE Moves(q, "done") /\ calls' = calls
      BY <2>1, <2>2, <2>3, <2>4, ActiveMoves DEF PC
    <2>5. CASE Moves(q, "calling") /\ calls' = [calls EXCEPT ![q] = "sent"]
      BY <1>1, <2>1, <2>2, <2>3, <2>5, ActiveMoves DEF PC
    <2> QED
      BY <2>1, <2>4, <2>5
  <1>5. ASSUME NEW q \in Requests,
               \/ ReceiveAnswer(q) \/ CommitVerdict(q) \/ store_response(q)
               \/ InsertResponse(q) \/ Interrupt(q)
        PROVE  overlapped' = overlapped /\ \A p \in Requests : Tame(p)
    <2>1. overlapped' = overlapped /\ calls' = calls
      BY <1>5 DEF ReceiveAnswer, CommitVerdict, store_response, InsertResponse, Interrupt
    <2>2. InFlight(q)
      BY <1>5 DEF ReceiveAnswer, CommitVerdict, store_response, InsertResponse, Interrupt,
                  InFlight
    <2>3. \E x \in PC : Moves(q, x) /\ (x = "conflict" => InsertResponse(q))
      <3>1. CASE ReceiveAnswer(q)
        BY <3>1, AnswerFacts DEF PC
      <3>2. CASE CommitVerdict(q)
        <4>1. Moves(q, "done") \/ Moves(q, "store")
          BY <3>2, CommitFacts
        <4> QED
          BY <4>1 DEF PC
      <3>3. CASE store_response(q)
        <4>1. Moves(q, "done") \/ Moves(q, "insert")
          BY <3>3, LookupFacts
        <4> QED
          BY <4>1 DEF PC
      <3>4. CASE InsertResponse(q)
        <4>1. Moves(q, "done") \/ Moves(q, "conflict")
          BY <3>4, InsertFacts
        <4> QED
          BY <3>4, <4>1 DEF PC
      <3>5. CASE Interrupt(q)
        <4>1. Moves(q, "dead")
          BY <1>1, <3>5, PcMoves DEF Interrupt, PC
        <4> QED
          BY <4>1 DEF PC
      <3> QED
        BY <1>5, <3>1, <3>2, <3>3, <3>4, <3>5
    <2>4. Active(q)
      BY <2>2 DEF Active
    <2> QED
      BY <2>1, <2>2, <2>3, <2>4, ActiveMoves
  <1>6. ASSUME NEW q \in Requests, (\E b \in BOOLEAN : verify(q, b)) \/ VerifyFails(q)
        PROVE  overlapped' = overlapped /\ \A p \in Requests : Tame(p)
    <2>1. calls[q] = "sent" /\ overlapped' = overlapped
      BY <1>6, VerifyFacts DEF VerifyFails
    <2>2. Moves(q, requests[q].pc) /\ \E x : calls' = [calls EXCEPT ![q] = x]
      <3>1. CASE \E b \in BOOLEAN : verify(q, b)
        BY <3>1, VerifyFacts
      <3>2. CASE VerifyFails(q)
        BY <1>1, <3>2 DEF VerifyFails, Moves
      <3> QED
        BY <1>6, <3>1, <3>2
    <2>3. \A p \in Requests : p # q => calls'[p] = calls[p]
      BY <1>1, <2>2
    <2>4. requests[q].pc \in PC /\ Active(q)
      BY <1>1, <2>1 DEF Request, PC, Active
    <2> QED
      BY <2>1, <2>2, <2>3, <2>4, ActiveMoves
  <1> QED
    BY <1>3, <1>4, <1>5, <1>6 DEF Next

\* A second request with the key of one that may have decided starts only if
\* the first is still under way, died, or has no stored response.
LEMMA TwiceNext == RequestInv /\ NotedTwice /\ [Next]_vars => NotedTwice'
  <1> SUFFICES ASSUME RequestInv, NotedTwice, [Next]_vars,
                      NEW k \in Keys, NEW p \in Requests, NEW q \in Requests,
                      p # q, requests'[p].key = k, requests'[q].key = k,
                      Active(p)', Active(q)'
               PROVE  (k \in overlapped \/ Interrupted(k))'
    BY DEF NotedTwice
  <1>1. CASE overlapped' = overlapped /\ \A x \in Requests : Tame(x)
    <2>1. k \in overlapped \/ Interrupted(k)
      BY <1>1 DEF Tame, NotedTwice
    <2> QED
      BY <1>1, <2>1 DEF Tame, Interrupted, InFlight
  <1>2. ASSUME NEW s \in Requests, NEW r \in RowIds, NEW key \in Keys \cup {Null},
               trigger_verification(s, r, key)
        PROVE  (k \in overlapped \/ Interrupted(k))'
    <2>1. TypeOK /\ requests \in [Requests -> Request]
      BY DEF RequestInv, TypeOK
    <2>2. /\ requests[s].pc = "new" /\ requests'[s].key = key
          /\ \A x \in Requests : x # s => requests'[x] = requests[x]
          /\ IF key # Null /\ idempotency[key] # Null
             THEN requests'[s].pc = "done" ELSE requests'[s].pc = "load"
          /\ overlapped \subseteq overlapped'
          /\ key # Null /\ (\E x \in Requests : requests[x].key = key /\ InFlight(x))
               => key \in overlapped'
      BY <1>2, <2>1, TriggerFacts
    <2>3. calls' = calls
      BY <1>2 DEF trigger_verification
    <2>4. Interrupted(k) => Interrupted(k)'
      BY <2>2 DEF Interrupted
    <2>5. ASSUME NEW x \in Requests, x # s, Active(x)' PROVE Active(x)
      BY <2>2, <2>3, <2>5 DEF Active, InFlight
    <2>6. CASE p # s /\ q # s
      <3>1. requests[p].key = k /\ requests[q].key = k
        BY <2>2, <2>6
      <3>2. k \in overlapped \/ Interrupted(k)
        BY <2>5, <2>6, <3>1 DEF NotedTwice
      <3> QED
        BY <2>2, <2>4, <3>2
    <2>7. ASSUME NEW x \in Requests, x # s, requests'[x].key = k, requests'[s].key = k,
                 Active(x)', Active(s)'
          PROVE  (k \in overlapped \/ Interrupted(k))'
      <3>1. Active(x) /\ requests[x].key = k /\ key = k /\ k # Null
        BY <2>2, <2>5, <2>7, VerificationBounds
      <3>2. CASE InFlight(x)
        BY <2>2, <3>1, <3>2
      <3>3. CASE ~InFlight(x)
        <4>1. calls[x] # "none" /\ RequestStands(x) /\ RequestStands(s)
          BY <3>1, <3>3 DEF Active, RequestInv
        <4>2. calls[s] = "none"
          BY <2>2, <4>1 DEF RequestStands
        <4>3. requests'[s].pc # "done"
          BY <2>3, <2>7, <4>2 DEF Active, InFlight
        <4>4. idempotency[k] = Null
          BY <2>2, <3>1, <4>3
        <4>5. requests[x].pc \in PC
          BY <2>1 DEF Request, PC
        <4>6. requests[x].pc = "dead"
          BY <3>1, <3>3, <4>1, <4>4, <4>5 DEF RequestStands, InFlight, PC
        <4>7. Interrupted(k)
          BY <3>1, <4>6 DEF Interrupted
        <4> QED
          BY <2>4, <4>7
      <3> QED
        BY <3>2, <3>3
    <2> QED
      BY <2>6, <2>7
  <1> QED
    BY <1>1, <1>2, Steps

\* The Idempotency-Key of trigger_verification: two verdicts for one key need two
\* requests at a time, or one that was interrupted or answered with an error.
THEOREM RetriesAreFree == Spec => []RetryAfterAnswerIsFree
  <1>1. Init => NotedTwice
    BY DEF Init, NotedTwice, Active, InFlight, FreshRequest
  <1>2. NotedTwice => RetryAfterAnswerIsFree
    <2> SUFFICES ASSUME NotedTwice, NEW k \in Keys, Cardinality(Fired(k)) > 1
                 PROVE  k \in overlapped \/ Interrupted(k)
      BY DEF RetryAfterAnswerIsFree
    <2>1. CASE \E p, q \in Fired(k) : p # q
      BY <2>1 DEF NotedTwice, Fired, Active
    <2>2. CASE \A p, q \in Fired(k) : p = q
      <3>1. CASE Fired(k) = {}
        <4>1. Cardinality(Fired(k)) = 0
          BY <3>1, FS_EmptySet
        <4> QED
          BY <4>1
      <3>2. CASE \E p : p \in Fired(k)
        <4>1. PICK p : p \in Fired(k)
          BY <3>2
        <4>2. Fired(k) = {p}
          BY <2>2, <4>1
        <4>3. Cardinality(Fired(k)) = 1
          BY <4>2, FS_Singleton
        <4> QED
          BY <4>3
      <3> QED
        BY <3>1, <3>2
    <2> QED
      BY <2>1, <2>2
  <1> QED
    BY <1>1, <1>2, RequestInit, RequestNext, TwiceNext, PTL DEF Spec
-----------------------------------------------------------------------------
(* Recorded verdicts and stored responses *)

\* A verdict that reached the chain keeps its row, its key and its outcome.
LEMMA RelayedStays ==
  ASSUME RequestInv, [Next]_vars, NEW p \in Requests, calls[p] = "relayed"
  PROVE  /\ calls'[p] = "relayed"
         /\ requests'[p].row = requests[p].row /\ requests'[p].key = requests[p].key
  <1>1. CASE \A x \in Requests : Tame(x)
    BY <1>1 DEF Tame
  <1>2. ASSUME NEW s \in Requests, NEW r \in RowIds, NEW key \in Keys \cup {Null},
               trigger_verification(s, r, key)
        PROVE  /\ calls'[p] = "relayed"
               /\ requests'[p].row = requests[p].row /\ requests'[p].key = requests[p].key
    <2>1. p # s
      BY <1>2 DEF trigger_verification, RequestInv, RequestStands
    <2>2. requests'[p] = requests[p]
      BY <1>2, <2>1, TriggerFacts DEF RequestInv
    <2> QED
      BY <1>2, <2>2 DEF trigger_verification
  <1> QED
    BY <1>1, <1>2, Steps

\* A row takes a request id only from the request that is committing to it.
LEMMA RowIdStep ==
  ASSUME RequestInv, [Next]_vars, NEW r \in 1..Len(rows')
  PROVE  \/ rows'[r].oracleRequestId = Null
         \/ r \in 1..Len(rows) /\ rows'[r].oracleRequestId = rows[r].oracleRequestId
         \/ \E q \in Requests : /\ rows'[r].oracleRequestId = q /\ requests[q].row = r
                                /\ calls[q] = "relayed"
  <1>1. TypeOK /\ rows \in Seq(Row) /\ Len(rows) \in Nat
    BY DEF RequestInv, TypeOK
  <1>2. CASE rows' = rows
    BY <1>2
  <1>3. ASSUME NEW root \in Roots \cup {Null}, NEW n \in DeclaredAmounts,
               create_claim(root, n)
        PROVE  \/ rows'[r].oracleRequestId = Null
               \/ r \in 1..Len(rows) /\ rows'[r].oracleRequestId = rows[r].oracleRequestId
    <2> DEFINE new == [root |-> root, amount |-> n, status |-> "draft",
                       onchainClaimId |-> Null, oracleRequestId |-> Null]
    <2>1. rows' = Append(rows, new)
      BY <1>3 DEF create_claim
    <2>2. new \in Row /\ new.oracleRequestId = Null
      BY VerificationBounds DEF Row, ClaimStatus
    <2> HIDE DEF new
    <2>3. /\ Len(rows') = Len(rows) + 1 /\ rows'[Len(rows) + 1] = new
          /\ \A x \in 1..Len(rows) : rows'[x] = rows[x]
      BY <1>1, <2>1, <2>2, AppendProperties
    <2>4. r \in 1..Len(rows) \/ r = Len(rows) + 1
      BY <1>1, <2>3
    <2> QED
      BY <2>2, <2>3, <2>4
  <1>4. ASSUME NEW q \in Requests, CommitVerdict(q)
        PROVE  \/ r \in 1..Len(rows) /\ rows'[r].oracleRequestId = rows[r].oracleRequestId
               \/ /\ rows'[r].oracleRequestId = q /\ requests[q].row = r
                  /\ calls[q] = "relayed"
    <2>1. /\ requests[q].pc = "answered" /\ Len(rows') = Len(rows)
          /\ \A x \in 1..Len(rows) :
               IF x = requests[q].row THEN rows'[x].oracleRequestId = q
               ELSE rows'[x] = rows[x]
      BY <1>4, CommitFacts
    <2>2. calls[q] = "relayed"
      BY <2>1 DEF RequestInv, RequestStands
    <2> QED
      BY <2>1, <2>2
  <1>5. ASSUME CommitEvent
        PROVE  r \in 1..Len(rows) /\ rows'[r].oracleRequestId = rows[r].oracleRequestId
    BY <1>1, <1>5, EventFacts
  <1>6. CASE UNCHANGED vars
    BY <1>2, <1>6 DEF vars
  <1>7. CASE Next
    <2>1. \/ rows' = rows
          \/ \E root \in Roots \cup {Null}, n \in DeclaredAmounts : create_claim(root, n)
          \/ \E q \in Requests : CommitVerdict(q)
          \/ CommitEvent
      BY <1>7 DEF Next, SubmitOnChain, SetStatusOnChain, trigger_verification, LoadAndCall,
                  ReceiveAnswer, store_response, InsertResponse, Interrupt, verify,
                  VerifyFails, receive_onchain_event, LoseEvent
    <2> QED
      BY <1>2, <1>3, <1>4, <1>5, <2>1
  <1> QED
    BY <1>6, <1>7

\* A response is stored once for a key, by the insert of a request with the key.
LEMMA StoredStep ==
  ASSUME RequestInv, [Next]_vars, NEW k \in Keys
  PROVE  \/ idempotency'[k] = idempotency[k]
         \/ \E q \in Requests : /\ InsertResponse(q) /\ idempotency[k] = Null
                                /\ idempotency'[k] = q /\ requests[q].key = k
                                /\ calls[q] = "relayed" /\ requests'[q].pc = "done"
  <1>1. idempotency \in [Keys -> Requests \cup {Null}]
    BY DEF RequestInv, TypeOK
  <1>2. ASSUME NEW q \in Requests, InsertResponse(q)
        PROVE  \/ idempotency'[k] = idempotency[k]
               \/ /\ idempotency[k] = Null /\ idempotency'[k] = q
                  /\ requests[q].key = k /\ calls[q] = "relayed"
                  /\ requests'[q].pc = "done"
    BY <1>1, <1>2, InsertFacts DEF Moves
  <1>3. CASE UNCHANGED vars
    BY <1>3 DEF vars
  <1>4. CASE Next
    <2>1. idempotency' = idempotency \/ \E q \in Requests : InsertResponse(q)
      BY <1>4 DEF Next, SubmitOnChain, SetStatusOnChain, create_claim, trigger_verification,
                  LoadAndCall, ReceiveAnswer, CommitVerdict, store_response, Interrupt,
                  verify, VerifyFails, receive_onchain_event, CommitEvent, LoseEvent
    <2> QED
      BY <1>2, <2>1
  <1> QED
    BY <1>3, <1>4

\* Every step keeps rows and stored responses tied to verdicts that happened.
LEMMA RecordedNext ==
  RequestInv /\ RecordedVerdictIsReal /\ [Next]_vars => RecordedVerdictIsReal'
  <1> SUFFICES ASSUME RequestInv, RecordedVerdictIsReal, [Next]_vars
               PROVE  RecordedVerdictIsReal'
    OBVIOUS
  <1>1. ASSUME NEW r \in 1..Len(rows'), rows'[r].oracleRequestId # Null
        PROVE  /\ requests'[rows'[r].oracleRequestId].row = r
               /\ calls'[rows'[r].oracleRequestId] = "relayed"
    <2>1. CASE r \in 1..Len(rows) /\ rows'[r].oracleRequestId = rows[r].oracleRequestId
      <3>1. /\ requests[rows[r].oracleRequestId].row = r
            /\ calls[rows[r].oracleRequestId] = "relayed"
        BY <1>1, <2>1 DEF RecordedVerdictIsReal
      <3>2. rows[r].oracleRequestId \in Requests
        <4>1. rows[r] \in Row
          BY <2>1, ElementOfSeq DEF RequestInv, TypeOK
        <4> QED
          BY <1>1, <2>1, <4>1 DEF Row
      <3> QED
        BY <2>1, <3>1, <3>2, RelayedStays
    <2>2. ASSUME NEW q \in Requests, rows'[r].oracleRequestId = q, requests[q].row = r,
                 calls[q] = "relayed"
          PROVE  /\ requests'[rows'[r].oracleRequestId].row = r
                 /\ calls'[rows'[r].oracleRequestId] = "relayed"
      BY <2>2, RelayedStays
    <2> QED
      BY <1>1, <2>1, <2>2, RowIdStep
  <1>2. ASSUME NEW k \in Keys, idempotency'[k] # Null
        PROVE  /\ requests'[idempotency'[k]].key = k
               /\ calls'[idempotency'[k]] = "relayed"
    <2>1. CASE idempotency'[k] = idempotency[k]
      <3>1. /\ requests[idempotency[k]].key = k /\ calls[idempotency[k]] = "relayed"
        BY <1>2, <2>1 DEF RecordedVerdictIsReal
      <3>2. idempotency[k] \in Requests
        BY <1>2, <2>1 DEF RequestInv, TypeOK
      <3> QED
        BY <2>1, <3>1, <3>2, RelayedStays
    <2>2. ASSUME NEW q \in Requests, idempotency'[k] = q, requests[q].key = k,
                 calls[q] = "relayed"
          PROVE  /\ requests'[idempotency'[k]].key = k
                 /\ calls'[idempotency'[k]] = "relayed"
      BY <2>2, RelayedStays
    <2> QED
      BY <2>1, <2>2, StoredStep
  <1> QED
    BY <1>1, <1>2 DEF RecordedVerdictIsReal

\* CommitVerdict and store_response record only verdicts that were asked for this
\* row, or with this key, and reached the chain, over all time-outs and retries.
THEOREM RecordedVerdictsAreReal == Spec => []RecordedVerdictIsReal
  <1>1. Init => RecordedVerdictIsReal
    BY DEF Init, RecordedVerdictIsReal
  <1> QED
    BY <1>1, RequestInit, RequestNext, RecordedNext, PTL DEF Spec

\* Every step keeps KeyStands.
LEMMA KeyNext ==
  ASSUME RequestInv, \A q \in Requests : KeyStands(q), [Next]_vars, NEW q \in Requests
  PROVE  KeyStands(q)'
  <1> DEFINE key == requests[q].key
  <1>1. /\ TypeOK /\ requests \in [Requests -> Request] /\ RequestStands(q)
        /\ idempotency \in [Keys -> Requests \cup {Null}]
    BY DEF RequestInv, TypeOK
  <1>2. CASE overlapped' = overlapped /\ \A x \in Requests : Tame(x)
    <2>1. \A x \in Requests : InFlight(x)' => InFlight(x)
      BY <1>2 DEF Tame, InFlight
    <2>2. \A x \in Requests : requests'[x].key = requests[x].key
      BY <1>2 DEF Tame
    <2>3. InFlight(q)' /\ key \in Keys /\ idempotency'[key] # Null => key \in overlapped'
      <3> SUFFICES ASSUME InFlight(q)', key \in Keys, idempotency'[key] # Null
                   PROVE  key \in overlapped
        BY <1>2
      <3>1. CASE idempotency'[key] = idempotency[key]
        BY <2>1, <3>1 DEF KeyStands
      <3>2. ASSUME NEW p \in Requests, InsertResponse(p), requests[p].key = key,
                   requests'[p].pc = "done"
            PROVE  key \in overlapped
        <4>1. p # q
          BY <3>2 DEF InFlight
        <4>2. InFlight(p)
          BY <3>2 DEF InsertResponse, InFlight
        <4> QED
          BY <2>1, <3>2, <4>1, <4>2 DEF KeyStands
      <3> QED
        BY <3>1, <3>2, StoredStep
    <2>4. InFlight(q)' /\ key \in Keys =>
            \A p \in Requests : p # q /\ InFlight(p)' /\ requests'[p].key = key
                               => key \in overlapped'
      BY <1>2, <2>1, <2>2 DEF KeyStands
    <2>5. ASSUME NEW k \in Keys, idempotency'[k] = q
          PROVE  requests'[q].pc = "done"
      <3>1. CASE idempotency'[k] = idempotency[k]
        <4>1. requests[q].pc = "done"
          BY <2>5, <3>1 DEF KeyStands
        <4> QED
          BY <1>2, <4>1 DEF Tame, InFlight
      <3> QED
        BY <2>5, <3>1, StoredStep
    <2>6. requests'[q].pc = "conflict" => key \in overlapped' /\ idempotency'[key] # q
      <3> SUFFICES ASSUME requests'[q].pc = "conflict"
                   PROVE  key \in overlapped /\ idempotency'[key] # q
        BY <1>2
      <3>1. CASE requests[q].pc = "conflict"
        <4>1. key \in Keys /\ key \in overlapped
          BY <1>1, <3>1 DEF RequestStands, KeyStands
        <4> QED
          BY <2>5, <4>1
      <3>2. CASE InsertResponse(q)
        <4>1. key \in Keys /\ InFlight(q)
          BY <3>2, InsertFacts DEF InFlight
        <4>2. idempotency[key] # Null
          BY <3>2, InsertFacts DEF Moves
        <4>3. key \in overlapped
          BY <4>1, <4>2 DEF KeyStands
        <4> QED
          BY <2>5, <4>1, <4>3
      <3> QED
        BY <1>2, <3>1, <3>2 DEF Tame
    <2> QED
      BY <2>2, <2>3, <2>4, <2>5, <2>6 DEF KeyStands
  <1>3. ASSUME NEW s \in Requests, NEW r \in RowIds, NEW k \in Keys \cup {Null},
               trigger_verification(s, r, k)
        PROVE  KeyStands(q)'
    <2>1. /\ requests[s].pc = "new" /\ requests'[s].key = k
          /\ \A x \in Requests : x # s => requests'[x] = requests[x]
          /\ IF k # Null /\ idempotency[k] # Null
             THEN requests'[s].pc = "done" ELSE requests'[s].pc = "load"
          /\ overlapped \subseteq overlapped'
          /\ k # Null /\ (\E x \in Requests : requests[x].key = k /\ InFlight(x))
               => k \in overlapped'
      BY <1>1, <1>3, TriggerFacts
    <2>2. idempotency' = idempotency /\ Null \notin Keys
      BY <1>3, VerificationBounds DEF trigger_verification
    <2>3. \A x \in Requests : x # s => (InFlight(x)' <=> InFlight(x))
      BY <2>1 DEF InFlight
    <2>4. \A x \in Requests : x # s /\ InFlight(x) /\ requests[x].key = k /\ k \in Keys
                             => k \in overlapped'
      BY <2>1, <2>2
    <2>5. \A y \in Keys : idempotency[y] = q => q # s
      BY <2>1 DEF KeyStands
    <2>6. CASE q = s
      <3>1. InFlight(s)' /\ k \in Keys => idempotency'[k] = Null
        BY <2>1, <2>2 DEF InFlight
      <3>2. requests'[s].pc # "conflict"
        BY <2>1
      <3>3. \A p \in Requests : p # s => requests'[p].key = requests[p].key
        BY <2>1
      <3> QED
        BY <2>1, <2>2, <2>3, <2>4, <2>5, <2>6, <3>1, <3>2, <3>3 DEF KeyStands
    <2>7. CASE q # s
      <3>1. requests'[q] = requests[q] /\ (InFlight(q)' <=> InFlight(q))
        BY <2>1, <2>3, <2>7
      <3>2. InFlight(q) /\ key \in Keys =>
              \A p \in Requests : p # q /\ InFlight(p)' /\ requests'[p].key = key
                                 => key \in overlapped'
        <4> SUFFICES ASSUME InFlight(q), key \in Keys, NEW p \in Requests, p # q,
                            InFlight(p)', requests'[p].key = key
                     PROVE  key \in overlapped'
          OBVIOUS
        <4>1. CASE p = s
          BY <2>1, <2>4, <2>7, <4>1
        <4>2. CASE p # s
          BY <2>1, <2>3, <4>2 DEF KeyStands
        <4> QED
          BY <4>1, <4>2
      <3>3. /\ InFlight(q) /\ key \in Keys /\ idempotency[key] # Null => key \in overlapped'
            /\ requests[q].pc = "conflict" => key \in overlapped' /\ idempotency[key] # q
            /\ \A y \in Keys : idempotency[y] = q => requests[q].pc = "done"
        BY <2>1 DEF KeyStands
      <3> QED
        BY <2>2, <3>1, <3>2, <3>3 DEF KeyStands
    <2> QED
      BY <2>6, <2>7
  <1> QED
    BY <1>2, <1>3, Steps

\* Whoever is answered with a verdict under a key leaves a response for the key, and
\* only a request that overlapped another one loses the insert of store_response.
THEOREM AnswersAreStored == Spec => []AnswerIsStored
  <1> DEFINE Stand == \A q \in Requests : KeyStands(q)
  <1>1. Init => Stand
    BY VerificationBounds DEF Init, KeyStands, InFlight, FreshRequest
  <1>2. RequestInv /\ Stand /\ [Next]_vars => Stand'
    BY KeyNext
  <1>3. RequestInv /\ Stand => AnswerIsStored
    <2> SUFFICES ASSUME RequestInv, Stand, NEW q \in Requests, requests[q].key # Null
                 PROVE  LET key == requests[q].key
                        IN  /\ requests[q].pc = "done" /\ calls[q] # "none"
                                 => idempotency[key] # Null
                            /\ requests[q].pc = "conflict" =>
                                 key \in overlapped /\ idempotency[key] \notin {q, Null}
      BY DEF AnswerIsStored
    <2>1. requests[q].key \in Keys
      BY DEF RequestInv, TypeOK, Request
    <2>2. RequestStands(q) /\ KeyStands(q)
      BY DEF RequestInv
    <2> QED
      BY <2>1, <2>2 DEF RequestStands, KeyStands
  <1> QED
    BY <1>1, <1>2, <1>3, RequestInit, RequestNext, PTL DEF Spec
-----------------------------------------------------------------------------
(* Where a "paid" comes from *)

\* A new status on the chain and its message: "paid" is noted when it is set.
LEMMA PaidChain ==
  ASSUME TypeOK, PaidStands, NEW c \in 1..Len(chainClaims), NEW s \in ChainStatus,
         chainClaims' = [chainClaims EXCEPT ![c].status = s], Notify(c, chainClaims'),
         everPaid \subseteq everPaid', s = "paid" => chainClaims[c].root \in everPaid',
         UNCHANGED <<rows, webhook>>
  PROVE  PaidStands'
  <1>1. /\ Len(chainClaims') = Len(chainClaims)
        /\ \A d \in 1..Len(chainClaims) :
             /\ chainClaims'[d].root = chainClaims[d].root
             /\ chainClaims'[d].status = IF d = c THEN s ELSE chainClaims[d].status
        /\ Len(outbox') = Len(outbox) + 1
        /\ \A i \in 1..Len(outbox) : outbox'[i] = outbox[i]
        /\ outbox'[Len(outbox) + 1].root = chainClaims[c].root
        /\ outbox'[Len(outbox) + 1].status = s
    BY StatusFacts
  <1>2. \A d \in 1..Len(chainClaims') :
          chainClaims'[d].status = "paid" => chainClaims'[d].root \in everPaid'
    BY <1>1 DEF PaidStands
  <1>3. \A i \in 1..Len(outbox') : i \in 1..Len(outbox) \/ i = Len(outbox) + 1
    BY <1>1 DEF TypeOK
  <1>4. \A i \in 1..Len(outbox') : outbox'[i].status = "paid" => outbox'[i].root \in everPaid'
    BY <1>1, <1>3 DEF PaidStands
  <1>5. PaidIsPaidOnChain'
    BY DEF PaidStands, PaidIsPaidOnChain
  <1>6. webhook' # Null /\ webhook'.status = "paid" => rows'[webhook'.row].root \in everPaid'
    BY DEF PaidStands
  <1> QED
    BY <1>2, <1>4, <1>5, <1>6 DEF PaidStands

\* Every step keeps it.
LEMMA PaidNext == RequestInv /\ PaidStands /\ [Next]_vars => PaidStands'
  <1> SUFFICES ASSUME RequestInv, PaidStands, [Next]_vars PROVE PaidStands'
    OBVIOUS
  <1>1. /\ TypeOK /\ rows \in Seq(Row) /\ Len(rows) \in Nat /\ outbox \in Seq(Message)
        /\ chainClaims \in Seq(ChainClaim) /\ Len(chainClaims) \in Nat
    BY DEF RequestInv, TypeOK, Message, ChainClaim
  <1>2. CASE UNCHANGED <<rows, chainClaims, outbox, everPaid, webhook>>
    BY <1>2 DEF PaidStands, PaidIsPaidOnChain
  <1>3. ASSUME NEW root \in Roots, SubmitOnChain(root)
        PROVE  PaidStands'
    <2>1. UNCHANGED <<rows, everPaid, webhook>>
      BY <1>3 DEF SubmitOnChain
    <2>2. /\ Len(chainClaims') = Len(chainClaims) + 1
          /\ \A d \in 1..Len(chainClaims) : chainClaims'[d] = chainClaims[d]
          /\ chainClaims'[Len(chainClaims) + 1].status = "submitted"
          /\ Len(outbox') = Len(outbox) + 1
          /\ \A i \in 1..Len(outbox) : outbox'[i] = outbox[i]
          /\ outbox'[Len(outbox) + 1].status = "submitted"
      BY <1>1, <1>3, SubmitFacts
    <2>3. /\ \A d \in 1..Len(chainClaims') : d \in 1..Len(chainClaims) \/ d = Len(chainClaims) + 1
          /\ \A i \in 1..Len(outbox') : i \in 1..Len(outbox) \/ i = Len(outbox) + 1
      BY <1>1, <2>2
    <2> QED
      BY <2>1, <2>2, <2>3 DEF PaidStands, PaidIsPaidOnChain
  <1>4. ASSUME NEW c \in ChainIds, NEW s \in ManualStatuses, SetStatusOnChain(c, s)
        PROVE  PaidStands'
    <2>1. /\ chainClaims' = [chainClaims EXCEPT ![c].status = s]
          /\ Notify(c, chainClaims') /\ c <= Len(chainClaims) /\ UNCHANGED <<rows, webhook>>
          /\ everPaid \subseteq everPaid' /\ (s = "paid" => chainClaims[c].root \in everPaid')
      BY <1>4 DEF SetStatusOnChain
    <2>2. c \in 1..Len(chainClaims) /\ s \in ChainStatus
      BY <1>1, <2>1, VerificationBounds DEF ChainIds, ChainStatus, ClaimStatus
    <2> QED
      BY <1>1, <2>1, <2>2, PaidChain
  <1>5. ASSUME NEW root \in Roots \cup {Null}, NEW n \in DeclaredAmounts,
               create_claim(root, n)
        PROVE  PaidStands'
    <2> DEFINE new == [root |-> root, amount |-> n, status |-> "draft",
                       onchainClaimId |-> Null, oracleRequestId |-> Null]
    <2>1. rows' = Append(rows, new) /\ UNCHANGED <<chainClaims, outbox, everPaid, webhook>>
      BY <1>5 DEF create_claim
    <2>2. new \in Row /\ new.status = "draft"
      BY VerificationBounds DEF Row, ClaimStatus
    <2> HIDE DEF new
    <2>3. /\ Len(rows') = Len(rows) + 1 /\ rows'[Len(rows) + 1] = new
          /\ \A x \in 1..Len(rows) : rows'[x] = rows[x]
      BY <1>1, <2>1, <2>2, AppendProperties
    <2>4. \A r \in 1..Len(rows') : r \in 1..Len(rows) \/ r = Len(rows) + 1
      BY <1>1, <2>3
    <2>5. webhook # Null => webhook.row \in 1..Len(rows)
      BY DEF RequestInv
    <2> QED
      BY <2>1, <2>2, <2>3, <2>4, <2>5 DEF PaidStands, PaidIsPaidOnChain
  <1>6. ASSUME NEW q \in Requests, CommitVerdict(q)
        PROVE  PaidStands'
    <2>1. UNCHANGED <<chainClaims, outbox, everPaid, webhook>>
      BY <1>6 DEF CommitVerdict
    <2>2. /\ Len(rows') = Len(rows)
          /\ \A r \in 1..Len(rows) :
               /\ rows'[r].root = rows[r].root
               /\ rows'[r].status \in {rows[r].status, "approved", "rejected"}
      BY <1>6, CommitFacts
    <2>3. webhook # Null => webhook.row \in 1..Len(rows)
      BY DEF RequestInv
    <2> QED
      BY <2>1, <2>2, <2>3 DEF PaidStands, PaidIsPaidOnChain
  <1>7. ASSUME NEW q \in Requests, NEW b \in BOOLEAN, verify(q, b)
        PROVE  PaidStands'
    <2>1. UNCHANGED <<rows, everPaid, webhook>>
      BY <1>7, VerifyFacts
    <2>2. CASE UNCHANGED <<chainClaims, target, outbox, sent>>
      BY <1>2, <2>1, <2>2
    <2>3. CASE \E c \in 1..Len(chainClaims), s \in {"approved", "rejected"} :
                 /\ chainClaims' = [chainClaims EXCEPT ![c].status = s]
                 /\ Notify(c, chainClaims')
      <3>1. {"approved", "rejected"} \subseteq ChainStatus /\ "paid" \notin {"approved", "rejected"}
        BY DEF ChainStatus, ClaimStatus
      <3> QED
        BY <1>1, <2>1, <2>3, <3>1, PaidChain
    <2> QED
      BY <1>7, <2>2, <2>3, VerifyFacts
  <1>8. ASSUME outbox # << >>, outbox' = Tail(outbox)
        PROVE  \A i \in 1..Len(outbox') : outbox'[i].status = "paid" =>
                                            outbox'[i].root \in everPaid
    <2>1. /\ Len(outbox') = Len(outbox) - 1 /\ Len(outbox) \in Nat
          /\ \A i \in 1..(Len(outbox) - 1) : outbox'[i] = outbox[i + 1]
      BY <1>1, <1>8, HeadTailProperties
    <2>2. \A i \in 1..(Len(outbox) - 1) : i + 1 \in 1..Len(outbox)
      BY <2>1
    <2> QED
      BY <2>1, <2>2 DEF PaidStands
  <1>9. ASSUME NEW fields \in Payloads, receive_onchain_event(fields)
        PROVE  PaidStands'
    <2>1. /\ outbox # << >> /\ outbox' = Tail(outbox)
          /\ \/ webhook' = Null
             \/ /\ rows[webhook'.row].root = Head(outbox).root
                /\ webhook'.status = Head(outbox).status
      BY <1>1, <1>9, SelectFacts
    <2>2. UNCHANGED <<rows, chainClaims, everPaid>>
      BY <1>9 DEF receive_onchain_event
    <2>3. Head(outbox).status = "paid" => Head(outbox).root \in everPaid
      <3>1. Head(outbox) = outbox[1] /\ 1 \in 1..Len(outbox)
        BY <1>1, <2>1
      <3> QED
        BY <3>1 DEF PaidStands
    <2>4. webhook' # Null /\ webhook'.status = "paid" => rows'[webhook'.row].root \in everPaid'
      BY <2>1, <2>2, <2>3
    <2>5. PaidIsPaidOnChain'
      BY <2>2 DEF PaidStands, PaidIsPaidOnChain
    <2> QED
      BY <1>8, <2>1, <2>2, <2>4, <2>5 DEF PaidStands
  <1>10. CASE LoseEvent
    <2>1. /\ outbox' = outbox \/ (outbox # << >> /\ outbox' = Tail(outbox))
          /\ webhook' = Null /\ UNCHANGED <<rows, chainClaims, everPaid>>
      BY <1>10 DEF LoseEvent
    <2>2. \A i \in 1..Len(outbox') : outbox'[i].status = "paid" =>
                                       outbox'[i].root \in everPaid
      BY <1>8, <2>1 DEF PaidStands
    <2> QED
      BY <2>1, <2>2 DEF PaidStands, PaidIsPaidOnChain
  <1>11. CASE UNCHANGED vars
    BY <1>2, <1>11 DEF vars
  <1>12. CASE CommitEvent
    <2>1. /\ Len(rows') = Len(rows) /\ webhook # Null /\ webhook' = Null
          /\ \A r \in 1..Len(rows) :
               /\ rows'[r].root = rows[r].root
               /\ \/ rows'[r].status = rows[r].status
                  \/ r = webhook.row /\ rows'[r].status = webhook.status
      BY <1>12, EventFacts
    <2>2. UNCHANGED <<chainClaims, outbox, everPaid>>
      BY <1>12 DEF CommitEvent
    <2> QED
      BY <2>1, <2>2 DEF PaidStands, PaidIsPaidOnChain
  <1>13. CASE Next
    <2>1. CASE \E q \in Requests :
                 \/ \E r \in RowIds, k \in Keys \cup {Null} : trigger_verification(q, r, k)
                 \/ LoadAndCall(q) \/ ReceiveAnswer(q) \/ store_response(q)
                 \/ InsertResponse(q) \/ Interrupt(q) \/ VerifyFails(q)
      <3>1. UNCHANGED <<rows, chainClaims, outbox, everPaid, webhook>>
        BY <2>1 DEF trigger_verification, LoadAndCall, ReceiveAnswer, store_response,
                    InsertResponse, Interrupt, VerifyFails
      <3> QED
        BY <1>2, <3>1
    <2> QED
      BY <1>3, <1>4, <1>5, <1>6, <1>7, <1>9, <1>10, <1>12, <1>13, <2>1 DEF Next
  <1> QED
    BY <1>11, <1>13

\* A row shows "paid" only for a root that was paid on the chain, whatever verdicts
\* CommitVerdict writes late and whichever webhook calls are lost or refused.
THEOREM PaidWasPaidOnChain == Spec => []PaidIsPaidOnChain
  <1>1. Init => PaidStands
    BY DEF Init, PaidStands, PaidIsPaidOnChain
  <1>2. PaidStands => PaidIsPaidOnChain
    BY DEF PaidStands
  <1> QED
    BY <1>1, <1>2, RequestInit, RequestNext, PaidNext, PTL DEF Spec
=============================================================================
