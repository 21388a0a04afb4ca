------------------------------- MODULE Indexer -------------------------------
(***************************************************************************)
(* The event indexer (indexer/src): listener.js scans the two contracts    *)
(* for logs, eventHandlers.js stores every log once, updates the mirror    *)
(* tables and tells the backend, checkpoint.js remembers the progress.     *)
(*                                                                         *)
(* Every await of the scan is a step of its own, so that the chain grows   *)
(* or reorganises, or the scan fails, between any two of them.  A query or *)
(* a call that throws ends the pass, and so does a crash: what is in       *)
(* Postgres stays, what is in memory is gone, and the loop starts again    *)
(* with the policy contract.                                               *)
(*                                                                         *)
(* A block holds at most one log of the two contracts; a chunk of several  *)
(* blocks holds several.  The tx of a log stands for the pair (tx_hash,    *)
(* log_index) that is unique in onchain_events.  A log carries the status  *)
(* as the contract's enum index; the mirror holds status names.            *)
(***************************************************************************)
EXTENDS Naturals, Sequences, FiniteSets, FiniteSetsExt

CONSTANTS ClaimIds, PolicyIds,   \* on-chain claims and policies
          NoItem, Null,          \* no claim or policy; no row, no checkpoint
          DeployBlock,           \* CLAIM_REGISTRY/INSURANCE_POLICY_DEPLOY_BLOCK
          ReorgSafety,           \* REORG_SAFETY_BLOCKS
          ChunkSize,             \* BLOCK_RANGE_CHUNK_SIZE
          AbortsScan,            \* events on which decoding or storing throws:
                                 \* ThrowsAsCommitted, fewer once repaired
          MaxReorg,              \* depth at which the chain is final
          MaxBlocks, MaxLogs,    \* bounds on the chain and on logs
          MaxFailures, MaxReorgs \* bounds on failures and reorganisations

ASSUME IndexerBounds ==
  /\ DeployBlock \in Nat \ {0} /\ ChunkSize \in Nat \ {0}
  /\ ReorgSafety \in Nat /\ MaxReorg \in Nat
  /\ MaxBlocks \in Nat /\ MaxLogs \in Nat
  /\ MaxFailures \in Nat /\ MaxReorgs \in Nat

Contracts == {"policy", "claims"}
Items == ClaimIds \cup PolicyIds

\* ClaimStatus of the contract, in enum order, and the names the indexer gives.
ClaimStatusEnum == <<"Submitted", "UnderReview", "Approved", "Paid", "Rejected">>
CLAIM_STATUS_NAMES ==
  <<"submitted", "under_review", "approved", "paid", "rejected">>
RowStatus == {CLAIM_STATUS_NAMES[i] : i \in 1..5} \cup {"registered", "revoked"}

\* The events of the two ABI fragments; every one of them has a handler.
Handled == {"ClaimSubmitted", "ClaimStatusChanged", "ClaimPayout",
            "PolicyRegistered", "PolicyRevoked"}

\* The contracts emit others as well: StuckPayoutReleased, and those that change
\* no status: RoleGranted, Initialized, Upgraded, Paused, the settings of both
\* contracts, premiums, plans and coverage.  The item of such a log only tells
\* which contract it is of.
NoStatus == {"OtherRegistryEvent", "OtherPolicyEvent"}
Unknown == {"StuckPayoutReleased"} \cup NoStatus
Events == Handled \cup Unknown

\* The events on which the committed code throws.  parseLog of ethers 6 answers
\* null for an event that is not in the fragment, so reading its name throws
\* outside the try; and the status of ClaimStatusChanged is a BigInt, which pg
\* cannot turn into the JSON of event_data.
ThrowsAsCommitted == Unknown \cup {"ClaimStatusChanged"}

ASSUME IndexerItems ==
  /\ ClaimIds \cap PolicyIds = {}
  /\ NoItem \notin ClaimIds \cup PolicyIds
  /\ Null \notin Nat /\ Null \notin RowStatus \cup Events
  /\ \A i \in 1..5 : ClaimStatusEnum[i] # Null

Log == [tx : 1..MaxLogs, contract : Contracts, name : Events, item : Items,
        status : 0..4]
NoLog == [tx |-> 0, contract |-> "none", name |-> "none", item |-> NoItem,
          status |-> 0]

VARIABLES
  chain, nextTx,       \* blocks 1 .. head, each a log or NoLog
  maxHead, reorgs,     \* highest head so far; reorganisations so far
  pc, contract,        \* where the scan is: "scan", "fetch", "log", "mirror",
                       \* "report"; the contract being scanned
  safeHead, cursor, toBlock, queue,  \* locals of scanContract
  events,              \* onchain_events: the tx of every stored log
  mirror,              \* onchain_claims and onchain_policies: status per row
  checkpoint           \* indexer_checkpoints, per contract

\* History variables: no guard of the indexer reads them.
VARIABLES
  reports,             \* per log: webhook calls the backend received
  torn,                \* logs stored whose handler died before the mirror write
  failures

chainVars == <<chain, nextTx, maxHead, reorgs>>
scanVars == <<contract, safeHead, cursor, toBlock>>
vars == <<chainVars, pc, scanVars, queue, events, mirror, checkpoint, reports,
          torn, failures>>
-----------------------------------------------------------------------------
TypeOK ==
  /\ chain \in Seq(Log \cup {NoLog}) /\ Len(chain) <= MaxBlocks
  /\ nextTx \in 1..(MaxLogs + 1)
  /\ maxHead \in Nat /\ reorgs \in Nat /\ failures \in Nat
  /\ pc \in {"scan", "fetch", "log", "mirror", "report"}
  /\ contract \in Contracts
  /\ safeHead \in Nat /\ cursor \in Nat /\ toBlock \in Nat
  /\ queue \in Seq(Log)
  /\ pc \in {"mirror", "report"} => queue # << >>
  /\ events \subseteq 1..MaxLogs /\ torn \subseteq 1..MaxLogs
  /\ mirror \in [Items -> RowStatus \cup {Null}]
  /\ checkpoint \in [Contracts -> Nat \cup {Null}]
  /\ reports \in [1..MaxLogs -> Nat]

Init ==
  /\ chain = << >> /\ nextTx = 1 /\ maxHead = 0 /\ reorgs = 0
  /\ pc = "scan" /\ contract = "policy"
  /\ safeHead = 0 /\ cursor = 0 /\ toBlock = 0 /\ queue = << >>
  /\ events = {}
  /\ mirror = [i \in Items |-> Null]
  /\ checkpoint = [k \in Contracts |-> Null]
  /\ reports = [t \in 1..MaxLogs |-> 0] /\ torn = {} /\ failures = 0
-----------------------------------------------------------------------------
(* The chain (external): what ClaimRegistry and InsurancePolicy can emit *)

\* Name of the status that the logs in these blocks give an item.
StatusAfter(blocks, item) ==
  LET own == {b \in blocks : chain[b].item = item /\ chain[b].name \notin NoStatus}
      last == chain[Max(own)]
  IN  CASE own = {} -> Null
        [] own # {} /\ last.contract = "claims" -> ClaimStatusEnum[last.status + 1]
        [] OTHER -> last.name

Emit(name, item) ==
  LET was == StatusAfter(1..Len(chain), item)
  IN  CASE name = "ClaimSubmitted" -> item \in ClaimIds /\ was = Null
        [] name = "ClaimStatusChanged" -> item \in ClaimIds /\ was # Null
        [] name \in {"ClaimPayout", "StuckPayoutReleased"} ->
             item \in ClaimIds /\ was = "Approved"
        [] name = "OtherRegistryEvent" -> item \in ClaimIds
        [] name = "PolicyRegistered" -> item \in PolicyIds /\ was = Null
        [] name = "PolicyRevoked" -> item \in PolicyIds /\ was # Null
        [] OTHER -> item \in PolicyIds

\* The enum index a log carries, or implies.
StatusIn(name) ==
  CASE name = "ClaimStatusChanged" -> 0..4
    [] name \in {"ClaimPayout", "StuckPayoutReleased"} -> {3}
    [] OTHER -> {0}

Mine(log) ==
  /\ Len(chain) < MaxBlocks
  /\ chain' = Append(chain, log)
  /\ maxHead' = IF Len(chain) + 1 > maxHead THEN Len(chain) + 1 ELSE maxHead
  /\ UNCHANGED <<reorgs, pc, scanVars, queue, events, mirror, checkpoint,
                 reports, torn, failures>>

MineEmpty == Mine(NoLog) /\ UNCHANGED nextTx

MineLog(name, item, status) ==
  /\ nextTx <= MaxLogs
  /\ Emit(name, item)
  /\ Len(chain) + 1 >= DeployBlock
  /\ Mine([tx |-> nextTx, name |-> name, item |-> item, status |-> status,
           contract |-> IF item \in ClaimIds THEN "claims" ELSE "policy"])
  /\ nextTx' = nextTx + 1

\* The chain falls back to height h; blocks MaxReorg below any head are final.
\* A transaction that is mined again has not been seen by the indexer before.
Reorg(h) ==
  /\ reorgs < MaxReorgs
  /\ h < Len(chain) /\ h + MaxReorg >= maxHead
  /\ chain' = SubSeq(chain, 1, h)
  /\ reorgs' = reorgs + 1
  /\ UNCHANGED <<nextTx, maxHead, pc, scanVars, queue, events, mirror,
                 checkpoint, reports, torn, failures>>
-----------------------------------------------------------------------------
(* listener.js *)

\* Math.max(0, currentHead - REORG_SAFETY_BLOCKS); a mutated form scans to the
\* head.
SafeHeadAtHead == Len(chain)
SafeHead == IF Len(chain) > ReorgSafety THEN Len(chain) - ReorgSafety ELSE 0

\* At deployBlock without a checkpoint, after the checkpoint with one; the
\* mutated form is the off-by-one that the comment in checkpoint.js recalls.
FromBlockConflated(k) ==
  (IF checkpoint[k] = Null THEN DeployBlock ELSE checkpoint[k]) + 1
FromBlock(k) ==
  IF checkpoint[k] = Null THEN DeployBlock ELSE checkpoint[k] + 1

\* A mutated form: a scan with nothing left to do ends the pass.
NextContractNever ==
  /\ pc' = "scan"
  /\ contract' = "policy"
  /\ safeHead' = 0 /\ cursor' = 0 /\ toBlock' = 0

\* runOnePass: the policies first, then the claims, then the next pass.
NextContract ==
  /\ pc' = "scan"
  /\ contract' = IF contract = "policy" THEN "claims" ELSE "policy"
  /\ safeHead' = 0 /\ cursor' = 0 /\ toBlock' = 0

\* scanContract up to the loop.
StartScan ==
  /\ pc = "scan"
  /\ IF FromBlock(contract) > SafeHead
     THEN NextContract
     ELSE /\ pc' = "fetch"
          /\ safeHead' = SafeHead
          /\ cursor' = FromBlock(contract)
          /\ UNCHANGED <<contract, toBlock>>
  /\ UNCHANGED <<chainVars, queue, events, mirror, checkpoint, reports, torn,
                 failures>>

\* A mutated form: the newest log first.
getLogsNewestFirst(from, to) ==
  LET downTo[b \in 0..to] ==
        IF b < from THEN << >>
        ELSE IF b <= Len(chain) /\ chain[b].contract = contract
             THEN <<chain[b]>> \o downTo[b - 1]
             ELSE downTo[b - 1]
  IN  downTo[to]

\* provider.getLogs: the logs of the contract in the blocks that exist.
getLogs(from, to) ==
  LET upTo[b \in 0..to] ==
        IF b < from THEN << >>
        ELSE IF b <= Len(chain) /\ chain[b].contract = contract
             THEN Append(upTo[b - 1], chain[b])
             ELSE upTo[b - 1]
  IN  upTo[to]

\* One chunk, in block order.
FetchChunk ==
  /\ pc = "fetch"
  /\ toBlock' = IF cursor + ChunkSize - 1 < safeHead
                THEN cursor + ChunkSize - 1 ELSE safeHead
  /\ queue' = getLogs(cursor, toBlock')
  /\ pc' = "log"
  /\ UNCHANGED <<chainVars, contract, safeHead, cursor, events, mirror,
                 checkpoint, reports, torn, failures>>

\* A log without a handler is passed over (if it decodes at all), and so is one
\* stored before: its side effects are taken to be done.
SkipLog ==
  /\ pc = "log" /\ queue # << >>
  /\ Head(queue).name \notin AbortsScan
  /\ Head(queue).name \notin Handled \/ Head(queue).tx \in events
  /\ queue' = Tail(queue)
  /\ UNCHANGED <<chainVars, pc, scanVars, events, mirror, checkpoint, reports,
                 torn, failures>>

\* The chunk is done: setLastProcessedBlock, then the next chunk or contract.
EndChunk ==
  /\ pc = "log" /\ queue = << >>
  /\ checkpoint' = [checkpoint EXCEPT ![contract] = toBlock]
  /\ IF toBlock < safeHead
     THEN /\ pc' = "fetch"
          /\ cursor' = toBlock + 1
          /\ UNCHANGED <<contract, safeHead, toBlock>>
     ELSE NextContract
  /\ UNCHANGED <<chainVars, queue, events, mirror, reports, torn, failures>>

\* An exception or a crash: memory is gone and the next pass starts over.
AbandonPass ==
  /\ pc' = "scan" /\ contract' = "policy"
  /\ safeHead' = 0 /\ cursor' = 0 /\ toBlock' = 0 /\ queue' = << >>

\* Any await may fail (RPC, Postgres, the network to the backend) and the
\* process may be killed at any point.
Fail ==
  /\ failures < MaxFailures
  /\ pc # "scan"
  /\ failures' = failures + 1
  /\ AbandonPass
  /\ torn' = IF pc = "mirror" THEN torn \cup {Head(queue).tx} ELSE torn
  /\ UNCHANGED <<chainVars, events, mirror, checkpoint, reports>>

\* Decoding or storing this event throws, every time it is tried.
AbortLog ==
  /\ pc = "log" /\ queue # << >>
  /\ Head(queue).name \in AbortsScan
  /\ AbandonPass
  /\ UNCHANGED <<chainVars, events, mirror, checkpoint, reports, torn, failures>>
-----------------------------------------------------------------------------
(* eventHandlers.js *)

\* A mutated form: the row is inserted but the answer is not looked at.
IsNewAlways(log) == TRUE

\* ON CONFLICT (tx_hash, log_index) DO NOTHING RETURNING id
IsNew(log) == log.tx \notin events

persistRawEventOnce ==
  /\ pc = "log" /\ queue # << >>
  /\ Head(queue).name \in Handled \ AbortsScan
  /\ IsNew(Head(queue))
  /\ events' = events \cup {Head(queue).tx}
  /\ pc' = "mirror"
  /\ UNCHANGED <<chainVars, scanVars, queue, mirror, checkpoint, reports, torn,
                 failures>>

\* A mutated form: the status is stored under the contract's name for it.
RowForUndecoded(log) ==
  IF log.contract = "claims" THEN ClaimStatusEnum[log.status + 1] ELSE "revoked"

\* The status a handler writes for its event.
RowFor(log) ==
  CASE log.name = "ClaimSubmitted" -> "submitted"
    [] log.name = "ClaimStatusChanged" -> CLAIM_STATUS_NAMES[log.status + 1]
    [] log.name = "ClaimPayout" -> "paid"
    [] log.name = "PolicyRegistered" -> "registered"
    [] OTHER -> "revoked"

\* INSERT ... ON CONFLICT DO NOTHING needs no row, UPDATE needs one.
Writes(log) ==
  (mirror[log.item] = Null) = (log.name \in {"ClaimSubmitted", "PolicyRegistered"})

\* The webhook follows a claim event unless an UPDATE found no row.
Reported(log) ==
  \/ log.name = "ClaimSubmitted"
  \/ log.contract = "claims" /\ mirror[log.item] # Null

\* handleClaimSubmitted ... handlePolicyRevoked, the mirror table.
WriteMirror ==
  LET log == Head(queue)
  IN  /\ pc = "mirror"
      /\ mirror' = IF Writes(log) THEN [mirror EXCEPT ![log.item] = RowFor(log)]
                   ELSE mirror
      /\ IF Reported(log)
         THEN pc' = "report" /\ UNCHANGED queue
         ELSE pc' = "log" /\ queue' = Tail(queue)
      /\ UNCHANGED <<chainVars, scanVars, events, checkpoint, reports, torn,
                     failures>>

\* reportClaimEvent: the backend takes the event or answers with an error,
\* which is logged only.
Report(accepted) ==
  /\ pc = "report"
  /\ reports' = IF accepted THEN [reports EXCEPT ![Head(queue).tx] = @ + 1]
                ELSE reports
  /\ pc' = "log" /\ queue' = Tail(queue)
  /\ UNCHANGED <<chainVars, scanVars, events, mirror, checkpoint, torn, failures>>
-----------------------------------------------------------------------------
ChainStep ==
  \/ MineEmpty
  \/ \E n \in Events, i \in Items : \E s \in StatusIn(n) : MineLog(n, i, s)
  \/ \E h \in 0..MaxBlocks : Reorg(h)

IndexerStep ==
  \/ StartScan
  \/ FetchChunk
  \/ SkipLog
  \/ EndChunk
  \/ AbortLog
  \/ persistRawEventOnce
  \/ WriteMirror
  \/ \E ok \in BOOLEAN : Report(ok)

Next == ChainStep \/ IndexerStep \/ Fail

Spec == Init /\ [][Next]_vars

\* mainLoop never ends and every await settles; the chain owes nothing.
FairSpec == Spec /\ WF_vars(IndexerStep)
-----------------------------------------------------------------------------
(* Properties *)

\* The backend hears of a log at most once, however often passes fail and
\* ranges are scanned again.
ReportedAtMostOnce == \A t \in 1..MaxLogs : reports[t] <= 1

\* No log is passed over: every handled log of a contract up to its checkpoint
\* is stored, across failures at any await, restarts and shallow reorgs.
CheckpointCovers ==
  \A k \in Contracts : checkpoint[k] # Null =>
    \A b \in DeployBlock..checkpoint[k] :
      /\ b <= Len(chain)
      /\ chain[b].contract = k /\ chain[b].name \in Handled =>
           chain[b].tx \in events

\* No stored log ever leaves the chain, as long as the chain reorganises no
\* deeper than REORG_SAFETY_BLOCKS.
StoredIsFinal ==
  \A t \in events : \E b \in 1..Len(chain) : chain[b].tx = t

\* What the row of an item should hold once the stored logs are applied in order.
StoredLogs == {b \in 1..Len(chain) : chain[b].tx \in events}
IndexerName(status) ==
  CASE status = Null -> Null
    [] status = "PolicyRegistered" -> "registered"
    [] status = "PolicyRevoked" -> "revoked"
    [] status = "Submitted" -> "submitted"
    [] status = "UnderReview" -> "under_review"
    [] status = "Approved" -> "approved"
    [] status = "Paid" -> "paid"
    [] status = "Rejected" -> "rejected"

\* While no handler died halfway, the mirror shows of every claim and policy
\* what the last stored log says: logs are applied in chain order, decoded
\* with the right names, and none twice.
MirrorFollowsLog ==
  torn = {} /\ pc # "mirror" =>
    \A i \in Items : mirror[i] = IndexerName(StatusAfter(StoredLogs, i))

\* The next chunk of contract k holds a log on which every pass ends.
Stalled(k) ==
  \E b \in FromBlock(k)..SafeHead :
    /\ b < FromBlock(k) + ChunkSize
    /\ chain[b].contract = k /\ chain[b].name \in AbortsScan

\* How far the indexer gets, whatever fails on the way: every block that stays
\* safe is indexed eventually, up to the chunk of the first log the contract's
\* scan cannot read.  Such a log of the claims contract never holds up the
\* policies; one of the policies, which are scanned first, holds up both.
CatchesUp ==
  <>[](SafeHead >= DeployBlock =>
         \A k \in Contracts :
           \/ checkpoint[k] # Null /\ checkpoint[k] >= SafeHead
           \/ Stalled(k)
           \/ k = "claims" /\ Stalled("policy"))

\* Documented: "Re-scanning an already-processed block range (e.g. after a
\* restart) is safe".  A scan never applies a stored log again, so whenever one
\* starts the mirror must already show what the stored logs say.  It does not: a
\* failure between the insert into onchain_events and the write of the mirror
\* row loses the row for good.
RescanIsSafe ==
  pc = "scan" =>
    \A i \in Items : mirror[i] = IndexerName(StatusAfter(StoredLogs, i))
=============================================================================
