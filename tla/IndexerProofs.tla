---------------------------- MODULE IndexerProofs ----------------------------
(***************************************************************************)
(* The indexer for every chain, chunk size, reorganisation and number of   *)
(* failures.                                                               *)
(*                                                                         *)
(* No property is inductive as it stands; four invariants carry them:      *)
(*   ReportInv  a reported log is stored, and the log whose handler is     *)
(*              under way is stored and not reported yet;                  *)
(*   BaseInv    types, transactions in block order, an item opened before  *)
(*              anything else happens to it;                               *)
(*   StoreInv   the scan begins after the checkpoint and stays below the   *)
(*              safe head, every handled log of the chunk is stored or     *)
(*              queued, and what is stored came from a final block;        *)
(*   MirrorInv  logs of a contract are stored in block order without gaps, *)
(*              and each row is what the last applied log says.            *)
(* The last two need REORG_SAFETY_BLOCKS to be at least the depth of a     *)
(* reorganisation, which is what the setting is for.                       *)
(***************************************************************************)
EXTENDS Indexer, SequenceTheorems, WellFoundedInduction, TLAPS

UnderWay == pc \in {"mirror", "report"}

ReportInv ==
  /\ reports \in [1..MaxLogs -> Nat]
  /\ \A t \in 1..MaxLogs : reports[t] <= 1
  /\ \A t \in 1..MaxLogs : reports[t] > 0 => t \in events
  /\ UnderWay => /\ Head(queue).tx \in events
                 /\ \A t \in 1..MaxLogs : t = Head(queue).tx => reports[t] = 0

\* Nothing is stored or reported at first.
LEMMA ReportInit == Init => ReportInv
  BY DEF Init, ReportInv, UnderWay

\* A step that neither stores nor reports and starts no handler.
LEMMA Idle ==
  ASSUME ReportInv, UNCHANGED <<events, reports>>,
         UnderWay' => UnderWay /\ queue' = queue
  PROVE  ReportInv'
  BY DEF ReportInv, UnderWay

\* persistRawEventOnce starts a handler only for a log that is not stored.
LEMMA StoreStep == ReportInv /\ persistRawEventOnce => ReportInv'
  <1> SUFFICES ASSUME ReportInv, persistRawEventOnce PROVE ReportInv'
    OBVIOUS
  <1>1. /\ events' = events \cup {Head(queue).tx}
        /\ Head(queue).tx \notin events
        /\ UNCHANGED <<queue, reports>>
    BY DEF persistRawEventOnce, IsNew
  <1>2. \A t \in 1..MaxLogs : t = Head(queue).tx => reports[t] = 0
    BY <1>1 DEF ReportInv
  <1> QED
    BY <1>1, <1>2 DEF ReportInv, UnderWay

\* reportClaimEvent raises the count of its log from zero to one at most.
LEMMA ReportStep ==
  ASSUME ReportInv, NEW ok \in BOOLEAN, Report(ok)
  PROVE  ReportInv'
  <1>1. /\ pc = "report" /\ pc' = "log" /\ UNCHANGED events
        /\ \/ reports' = [reports EXCEPT ![Head(queue).tx] = @ + 1]
           \/ reports' = reports
    BY DEF Report
  <1>2. /\ Head(queue).tx \in events
        /\ \A t \in 1..MaxLogs : t = Head(queue).tx => reports[t] = 0
    BY <1>1 DEF ReportInv, UnderWay
  <1>3. reports' \in [1..MaxLogs -> Nat]
    BY <1>1 DEF ReportInv
  <1>4. ASSUME NEW t \in 1..MaxLogs
        PROVE  reports'[t] = reports[t] \/ (t = Head(queue).tx /\ reports'[t] = 1)
    <2>1. reports \in [1..MaxLogs -> Nat]
      BY DEF ReportInv
    <2>2. CASE reports' = reports
      BY <2>2
    <2>3. CASE /\ reports' = [reports EXCEPT ![Head(queue).tx] = @ + 1]
               /\ t # Head(queue).tx
      BY <2>1, <2>3
    <2>4. CASE /\ reports' = [reports EXCEPT ![Head(queue).tx] = @ + 1]
               /\ t = Head(queue).tx
      <3>1. reports'[t] = reports[t] + 1
        BY <2>1, <2>4
      <3> QED
        BY <1>2, <2>4, <3>1
    <2> QED
      BY <1>1, <2>2, <2>3, <2>4
  <1>5. \A t \in 1..MaxLogs : reports'[t] <= 1 /\ (reports'[t] > 0 => t \in events')
    BY <1>1, <1>2, <1>4 DEF ReportInv
  <1> QED
    BY <1>1, <1>3, <1>5 DEF ReportInv, UnderWay

\* Every step of the chain, the indexer and its failures keeps the invariant.
LEMMA ReportNext == ReportInv /\ [Next]_vars => ReportInv'
  <1> SUFFICES ASSUME ReportInv, [Next]_vars PROVE ReportInv'
    OBVIOUS
  <1>1. CASE ChainStep
    <2>1. UNCHANGED <<pc, queue, events, reports>>
      BY <1>1 DEF ChainStep, MineEmpty, MineLog, Mine, Reorg
    <2> QED
      BY <2>1, Idle DEF UnderWay
  <1>2. CASE StartScan
    BY <1>2, Idle DEF StartScan, NextContract, UnderWay
  <1>3. CASE FetchChunk
    BY <1>3, Idle DEF FetchChunk, UnderWay
  <1>4. CASE SkipLog
    BY <1>4, Idle DEF SkipLog, UnderWay
  <1>5. CASE EndChunk
    BY <1>5, Idle DEF EndChunk, NextContract, UnderWay
  <1>6. CASE AbortLog
    BY <1>6, Idle DEF AbortLog, AbandonPass, UnderWay
  <1>7. CASE persistRawEventOnce
    BY <1>7, StoreStep
  <1>8. CASE WriteMirror
    BY <1>8, Idle DEF WriteMirror, UnderWay
  <1>9. CASE \E ok \in BOOLEAN : Report(ok)
    BY <1>9, ReportStep
  <1>10. CASE Fail
    BY <1>10, Idle DEF Fail, AbandonPass, UnderWay
  <1>11. CASE UNCHANGED vars
    BY <1>11, Idle DEF vars, UnderWay
  <1> QED
    BY <1>1, <1>2, <1>3, <1>4, <1>5, <1>6, <1>7, <1>8, <1>9, <1>10, <1>11
    DEF Next, IndexerStep

\* A log is reported to the backend's webhook at most once, over any number of
\* failed passes, restarts and repeated scans of scanContract.
THEOREM ReportsAreUnique == Spec => []ReportedAtMostOnce
  <1>1. ReportInv => ReportedAtMostOnce
    BY DEF ReportInv, ReportedAtMostOnce
  <1> QED
    BY <1>1, ReportInit, ReportNext, PTL DEF Spec
-----------------------------------------------------------------------------
(* Smallest and largest numbers, and getLogs *)

\* A nonempty set of natural numbers has a smallest member.
LEMMA Smallest ==
  ASSUME NEW S \in SUBSET Nat, S # {}
  PROVE  \E n \in S : \A m \in S : n <= m
  <1>1. PICK n \in S : \A m \in S : ~(<<m, n>> \in OpToRel(<, Nat))
    BY NatLessThanWellFounded, WFMin
  <1>2. \A m \in S : ~(m < n)
    BY <1>1 DEF OpToRel
  <1> QED
    BY <1>2

\* A nonempty set of blocks has a last one, and Max is it.
LEMMA LastBlock ==
  ASSUME NEW n \in Nat, NEW S \in SUBSET (1..n), S # {}
  PROVE  Max(S) \in S /\ \A y \in S : y <= Max(S)
  <1> DEFINE T == {k \in Nat : \E x \in S : x + k = n}
  <1>1. \A x \in S : x \in Nat /\ n - x \in Nat /\ x + (n - x) = n
    OBVIOUS
  <1>2. T \in SUBSET Nat /\ T # {} /\ \A x \in S : n - x \in T
    BY <1>1
  <1>3. PICK m \in T : \A y \in T : m <= y
    <2> HIDE DEF T
    <2> QED
      BY <1>2, Smallest
  <1>4. PICK x \in S : x + m = n
    BY <1>3
  <1>5. \A y \in S : x >= y
    <2> SUFFICES ASSUME NEW y \in S PROVE x >= y
      OBVIOUS
    <2>1. m <= n - y /\ m \in Nat
      BY <1>2, <1>3
    <2> HIDE DEF T
    <2> QED
      BY <1>1, <1>4, <2>1
  <1> DEFINE P(z) == z \in S /\ \A y \in S : z >= y
  <1>6. P(CHOOSE z : P(z))
    <2>1. P(x)
      BY <1>5
    <2> HIDE DEF P
    <2> QED
      BY <2>1, Zenon
  <1>7. Max(S) = CHOOSE z : P(z)
    BY DEF Max
  <1> QED
    BY <1>6, <1>7

\* What getLogs collects, block by block.
Takes(b) == b <= Len(chain) /\ chain[b].contract = contract
Collects(g, from, n) ==
  g = [b \in 0..n |-> IF b < from THEN << >>
                      ELSE IF Takes(b) THEN Append(g[b - 1], chain[b])
                      ELSE g[b - 1]]

\* The recursion of getLogs has a solution.
LEMMA CollectsExists ==
  ASSUME NEW from \in Nat, from > 0, NEW to \in Nat
  PROVE  \E g : Collects(g, from, to)
  <1> DEFINE Bad == {n \in Nat : ~ \E g : Collects(g, from, n)}
  <1> SUFFICES ASSUME Bad # {} PROVE FALSE
    OBVIOUS
  <1>1. PICK n \in Bad : \A m \in Bad : n <= m
    <2>1. Bad \in SUBSET Nat
      OBVIOUS
    <2> HIDE DEF Bad
    <2> QED
      BY <2>1, Smallest
  <1>2. n # 0
    <2> DEFINE g == [b \in 0..0 |-> << >>]
    <2>1. Collects(g, from, 0)
      <3>1. g = [b \in 0..0 |-> IF b < from THEN << >>
                                ELSE IF Takes(b) THEN Append(g[b - 1], chain[b])
                                ELSE g[b - 1]]
        OBVIOUS
      <3> HIDE DEF g
      <3> QED
        BY <3>1 DEF Collects
    <2> HIDE DEF g
    <2> QED
      BY <2>1
  <1>3. PICK g : Collects(g, from, n - 1)
    <2>1. n - 1 \in Nat /\ n - 1 \notin Bad
      BY <1>1, <1>2
    <2> QED
      BY <2>1
  <1>4. n \in Nat \ {0}
    BY <1>1, <1>2
  <1>5. ASSUME NEW b \in 0..(n - 1)
        PROVE  g[b] = IF b < from THEN << >>
                      ELSE IF Takes(b) THEN Append(g[b - 1], chain[b]) ELSE g[b - 1]
    BY <1>3 DEF Collects
  <1> HIDE DEF Bad
  <1> DEFINE h == [b \in 0..n |-> IF b < from THEN << >>
                                  ELSE IF Takes(b) THEN Append(g[b - 1], chain[b])
                                  ELSE g[b - 1]]
  <1>6. Collects(h, from, n)
    <2>1. ASSUME NEW b \in 0..(n - 1) PROVE h[b] = g[b]
      <3>1. b \in 0..n
        BY <1>4
      <3> QED
        BY <1>5, <3>1
    <2>2. ASSUME NEW b \in 0..n
          PROVE  h[b] = IF b < from THEN << >>
                        ELSE IF Takes(b) THEN Append(h[b - 1], chain[b]) ELSE h[b - 1]
      <3>1. CASE b < from
        BY <3>1
      <3>2. CASE ~(b < from)
        <4>1. b - 1 \in 0..(n - 1)
          BY <1>4, <3>2
        <4>2. h[b - 1] = g[b - 1]
          BY <2>1, <4>1
        <4>3. h[b] = IF Takes(b) THEN Append(g[b - 1], chain[b]) ELSE g[b - 1]
          BY <3>2
        <4> HIDE DEF h
        <4> QED
          BY <3>2, <4>2, <4>3
      <3> QED
        BY <3>1, <3>2
    <2>3. h = [b \in 0..n |-> h[b]]
      OBVIOUS
    <2> HIDE DEF h
    <2> QED
      BY <2>2, <2>3 DEF Collects
  <1> HIDE DEF h
  <1> QED
    BY <1>4, <1>6 DEF Bad

\* So getLogs is its value at the last block.
LEMMA GetLogsIs ==
  ASSUME NEW from \in Nat, from > 0, NEW to \in Nat
  PROVE  \E g : Collects(g, from, to) /\ getLogs(from, to) = g[to]
  <1> DEFINE P(h) == Collects(h, from, to)
  <1>1. P(CHOOSE h : P(h))
    <2>1. \E h : P(h)
      BY CollectsExists
    <2> HIDE DEF P
    <2> QED
      BY <2>1, Zenon
  <1>2. getLogs(from, to) = (CHOOSE h : P(h))[to]
    BY DEF getLogs, Collects, Takes
  <1> QED
    BY <1>1, <1>2

\* Blocks that carry a log of the scanned contract, from one on up to another.
Fetched(from, to) == {b \in from..to : b <= Len(chain) /\ chain[b].contract = contract}

\* getLogs returns the logs of those blocks, all of them and in order.
LEMMA GetLogs ==
  ASSUME chain \in Seq(Log \cup {NoLog}), contract \in Contracts,
         NEW from \in Nat, from > 0, NEW to \in Nat,
         \A b \in 1..Len(chain) : chain[b] # NoLog =>
           \A c \in 1..(b - 1) : chain[c].tx < chain[b].tx
  PROVE  LET q == getLogs(from, to)
         IN  /\ q \in Seq(Log)
             /\ \A i \in 1..Len(q) : \E b \in Fetched(from, to) : q[i] = chain[b]
             /\ \A b \in Fetched(from, to) : \E i \in 1..Len(q) : q[i] = chain[b]
             /\ \A i, j \in 1..Len(q) : i < j => q[i].tx < q[j].tx
  <1>1. PICK g : Collects(g, from, to) /\ getLogs(from, to) = g[to]
    BY GetLogsIs
  <1> DEFINE Good(n) ==
               /\ g[n] \in Seq(Log)
               /\ \A i \in 1..Len(g[n]) : \E b \in Fetched(from, n) : g[n][i] = chain[b]
               /\ \A b \in Fetched(from, n) : \E i \in 1..Len(g[n]) : g[n][i] = chain[b]
               /\ \A i, j \in 1..Len(g[n]) : i < j => g[n][i].tx < g[n][j].tx
             Bad == {n \in 0..to : ~Good(n)}
  <1>2. ASSUME Bad # {} PROVE FALSE
    <2>1. PICK n \in Bad : \A m \in Bad : n <= m
      <3>1. Bad \in SUBSET Nat
        OBVIOUS
      <3> HIDE DEF Bad
      <3> QED
        BY <1>2, <3>1, Smallest
    <2>2. n \in 0..to /\ ~Good(n)
      BY <2>1
    <2>3. g[n] = IF n < from THEN << >>
                 ELSE IF Takes(n) THEN Append(g[n - 1], chain[n]) ELSE g[n - 1]
      BY <1>1, <2>2 DEF Collects
    <2>4. CASE n < from
      <3>1. g[n] = << >> /\ Fetched(from, n) = {}
        BY <2>2, <2>3, <2>4 DEF Fetched
      <3> QED
        BY <2>2, <3>1
    <2>5. CASE n >= from
      <3>1. n - 1 \in 0..to /\ Good(n - 1)
        BY <2>1, <2>2, <2>5
      <3>2. CASE ~Takes(n)
        <4>1. g[n] = g[n - 1]
          BY <2>2, <2>3, <2>5, <3>2
        <4>2. Fetched(from, n) = Fetched(from, n - 1)
          BY <2>2, <2>5, <3>2 DEF Fetched, Takes
        <4> QED
          BY <2>2, <3>1, <4>1, <4>2
      <3>3. CASE Takes(n)
        <4> DEFINE p == g[n - 1]
        <4>1. g[n] = Append(p, chain[n])
          BY <2>2, <2>3, <2>5, <3>3
        <4>2. n \in 1..Len(chain)
          BY <2>2, <2>5, <3>3 DEF Takes
        <4>3. chain[n] \in Log \cup {NoLog}
          BY <4>2, ElementOfSeq
        <4>4. chain[n] \in Log /\ chain[n] # NoLog
          BY <3>3, <4>3 DEF Takes, NoLog, Contracts
        <4>5. p \in Seq(Log)
          BY <3>1
        <4>6. /\ g[n] \in Seq(Log) /\ Len(g[n]) = Len(p) + 1 /\ Len(p) \in Nat
              /\ \A i \in 1..Len(p) : g[n][i] = p[i]
              /\ g[n][Len(p) + 1] = chain[n]
          BY <4>1, <4>4, <4>5, AppendProperties
        <4>7. /\ Fetched(from, n) = Fetched(from, n - 1) \cup {n}
              /\ \A b \in Fetched(from, n - 1) : b \in 1..(n - 1)
          BY <2>2, <2>5, <3>3 DEF Fetched, Takes
        <4>8. \A i \in 1..Len(g[n]) : i \in 1..Len(p) \/ i = Len(p) + 1
          BY <4>6
        <4>9. \A i \in 1..Len(p) : \E b \in Fetched(from, n - 1) : p[i] = chain[b]
          BY <3>1
        <4>10. \A i \in 1..Len(g[n]) : \E b \in Fetched(from, n) : g[n][i] = chain[b]
          BY <4>6, <4>7, <4>8, <4>9
        <4>11. \A b \in Fetched(from, n) : \E i \in 1..Len(g[n]) : g[n][i] = chain[b]
          <5>1. \A b \in Fetched(from, n - 1) : \E i \in 1..Len(p) : p[i] = chain[b]
            BY <3>1
          <5>2. Len(p) + 1 \in 1..Len(g[n]) /\ \A i \in 1..Len(p) : i \in 1..Len(g[n])
            BY <4>6
          <5> QED
            BY <4>6, <4>7, <5>1, <5>2
        <4>12. \A i, j \in 1..Len(g[n]) : i < j => g[n][i].tx < g[n][j].tx
          <5>1. \A i \in 1..Len(p) : p[i].tx < chain[n].tx
            BY <4>2, <4>4, <4>7, <4>9
          <5>2. \A i, j \in 1..Len(p) : i < j => p[i].tx < p[j].tx
            BY <3>1
          <5> TAKE i, j \in 1..Len(g[n])
          <5> HAVE i < j
          <5>3. i \in 1..Len(p) /\ (j \in 1..Len(p) \/ j = Len(p) + 1)
            BY <4>6
          <5> QED
            BY <4>6, <5>1, <5>2, <5>3
        <4> QED
          BY <2>2, <4>6, <4>10, <4>11, <4>12
      <3> QED
        BY <3>2, <3>3
    <2> QED
      BY <2>2, <2>4, <2>5
  <1>3. Good(to)
    BY <1>2
  <1> QED
    BY <1>1, <1>3
-----------------------------------------------------------------------------
(* The chain and the types *)

\* Events with which the contracts open a claim or a policy, and the claims'.
Opens == {"ClaimSubmitted", "PolicyRegistered"}
ClaimEvents == {"ClaimSubmitted", "ClaimStatusChanged", "ClaimPayout",
                "StuckPayoutReleased", "OtherRegistryEvent"}

\* Nothing in the blocks before b gives the item a status.
Untouched(item, b) ==
  \A c \in 1..(b - 1) : chain[c].item = item => chain[c].name \in NoStatus

\* A log in block b: what it carries, and how it relates to earlier blocks.
LogStands(b) ==
  /\ chain[b].tx < nextTx /\ b >= DeployBlock
  /\ chain[b].status \in StatusIn(chain[b].name)
  /\ chain[b].contract = IF chain[b].item \in ClaimIds THEN "claims" ELSE "policy"
  /\ chain[b].contract = IF chain[b].name \in ClaimEvents THEN "claims" ELSE "policy"
  /\ \A c \in 1..(b - 1) : chain[c].tx < chain[b].tx
  /\ chain[b].name \notin NoStatus =>
       (chain[b].name \in Opens <=> Untouched(chain[b].item, b))

\* The chain never falls back below what is final.
ChainInv ==
  /\ Len(chain) <= maxHead /\ maxHead <= Len(chain) + MaxReorg
  /\ \A b \in 1..Len(chain) : chain[b] # NoLog => LogStands(b)

BaseInv == TypeOK /\ ChainInv /\ (pc = "fetch" => cursor > 0)

\* Nothing is mined, stored or scanned at first.
LEMMA BaseInit == Init => BaseInv
  <1> SUFFICES ASSUME Init PROVE BaseInv
    OBVIOUS
  <1>1. TypeOK
    BY IndexerBounds DEF Init, TypeOK, Contracts
  <1>2. ChainInv
    BY IndexerBounds DEF Init, ChainInv
  <1> QED
    BY <1>1, <1>2 DEF BaseInv, Init

\* A log that stands does so on any chain with the same blocks up to it.
LEMMA SameLog ==
  ASSUME NEW b \in Nat, LogStands(b), b >= 1, nextTx \in Nat, nextTx' \in Nat,
         nextTx' >= nextTx, \A c \in 1..b : chain'[c] = chain[c], chain[b].tx \in Nat
  PROVE  LogStands(b)'
  <1>1. b \in 1..b /\ \A c \in 1..(b - 1) : c \in 1..b
    OBVIOUS
  <1>2. chain'[b] = chain[b] /\ \A c \in 1..(b - 1) : chain'[c] = chain[c]
    BY <1>1
  <1>3. Untouched(chain[b].item, b)' <=> Untouched(chain[b].item, b)
    BY <1>2 DEF Untouched
  <1>4. chain'[b].tx < nextTx'
    BY <1>2 DEF LogStands
  <1> QED
    BY <1>2, <1>3, <1>4 DEF LogStands, Untouched

\* The contracts hold an item exactly when a log other than a premium names it.
LEMMA StatusIsNull ==
  ASSUME chain \in Seq(Log \cup {NoLog}), NEW item \in Items
  PROVE  StatusAfter(1..Len(chain), item) = Null
           <=> Untouched(item, Len(chain) + 1)
  <1> DEFINE own == {b \in 1..Len(chain) : chain[b].item = item
                                           /\ chain[b].name \notin NoStatus}
             last == chain[Max(own)]
  <1>1. Len(chain) \in Nat /\ (Len(chain) + 1) - 1 = Len(chain)
    OBVIOUS
  <1>2. own = {} <=> Untouched(item, Len(chain) + 1)
    BY <1>1 DEF Untouched
  <1>3. CASE own = {}
    <2>1. StatusAfter(1..Len(chain), item) = Null
      BY <1>3 DEF StatusAfter
    <2> QED
      BY <1>2, <1>3, <2>1
  <1>4. CASE own # {}
    <2>1. own \in SUBSET (1..Len(chain))
      OBVIOUS
    <2>2. Max(own) \in own
      <3> HIDE DEF own
      <3> QED
        BY <1>1, <1>4, <2>1, LastBlock
    <2>3. last \in Log \cup {NoLog} /\ last.item \in Items
      BY <2>2, ElementOfSeq
    <2>4. last \in Log
      BY <2>3, IndexerItems DEF NoLog, Items
    <2>5. last.name \in Events /\ last.status + 1 \in 1..5
      BY <2>4 DEF Log
    <2>6. last.name # Null /\ ClaimStatusEnum[last.status + 1] # Null
      BY <2>5, IndexerItems
    <2> HIDE DEF own, last
    <2>7. StatusAfter(1..Len(chain), item) = IF last.contract = "claims"
            THEN ClaimStatusEnum[last.status + 1] ELSE last.name
      BY <1>4 DEF StatusAfter, own, last
    <2> QED
      BY <1>2, <1>4, <2>6, <2>7
  <1> QED
    BY <1>3, <1>4

\* The chain with one more block.
LEMMA MineKeeps ==
  ASSUME BaseInv, NEW log \in Log \cup {NoLog}, Mine(log),
         nextTx' \in 1..(MaxLogs + 1), nextTx' >= nextTx,
         NEW new, new = Len(chain) + 1, log # NoLog => LogStands(new)'
  PROVE  BaseInv'
  <1>1. /\ chain \in Seq(Log \cup {NoLog}) /\ maxHead \in Nat /\ nextTx \in Nat
        /\ nextTx' \in Nat /\ Len(chain) \in Nat
    BY IndexerBounds DEF BaseInv, TypeOK
  <1>2. /\ chain' = Append(chain, log) /\ Len(chain) < MaxBlocks
        /\ maxHead' = IF Len(chain) + 1 > maxHead THEN Len(chain) + 1 ELSE maxHead
        /\ UNCHANGED <<reorgs, pc, scanVars, queue, events, mirror, checkpoint,
                       reports, torn, failures>>
    BY DEF Mine
  <1>3. /\ chain' \in Seq(Log \cup {NoLog}) /\ Len(chain') = Len(chain) + 1
        /\ \A b \in 1..Len(chain) : chain'[b] = chain[b]
        /\ chain'[Len(chain) + 1] = log
    BY <1>1, <1>2, AppendProperties
  <1>4. Len(chain') <= MaxBlocks /\ maxHead' \in Nat
    BY <1>1, <1>2, <1>3, IndexerBounds
  <1>5. TypeOK'
    BY <1>2, <1>3, <1>4 DEF BaseInv, TypeOK, scanVars
  <1>6. Len(chain') <= maxHead' /\ maxHead' <= Len(chain') + MaxReorg
    BY <1>1, <1>2, <1>3, IndexerBounds DEF BaseInv, ChainInv
  <1>7. ASSUME NEW b \in 1..Len(chain'), chain'[b] # NoLog
        PROVE  LogStands(b)'
    <2>1. b \in 1..Len(chain) \/ b = Len(chain) + 1
      BY <1>1, <1>3
    <2>2. CASE b \in 1..Len(chain)
      <3>1. chain'[b] = chain[b] /\ LogStands(b)
        BY <1>3, <1>7, <2>2 DEF BaseInv, ChainInv
      <3>2. \A c \in 1..b : chain'[c] = chain[c]
        BY <1>1, <1>3, <2>2
      <3>3. chain[b] \in Log
        BY <1>1, <1>7, <2>2, <3>1, ElementOfSeq
      <3>4. chain[b].tx \in Nat
        BY <3>3, IndexerBounds DEF Log
      <3> QED
        BY <1>1, <2>2, <3>1, <3>2, <3>4, SameLog
    <2>3. CASE b = Len(chain) + 1
      BY <1>3, <1>7, <2>3
    <2> QED
      BY <2>1, <2>2, <2>3
  <1> QED
    BY <1>2, <1>5, <1>6, <1>7 DEF BaseInv, ChainInv, scanVars

\* A log that the contracts emit carries what it should.
LEMMA MineLogKeeps ==
  ASSUME BaseInv, NEW n \in Events, NEW item \in Items, NEW s \in StatusIn(n),
         MineLog(n, item, s)
  PROVE  BaseInv'
  <1> DEFINE k == IF item \in ClaimIds THEN "claims" ELSE "policy"
             log == [tx |-> nextTx, name |-> n, item |-> item, status |-> s,
                     contract |-> k]
  <1>0. PICK new : new = Len(chain) + 1
    OBVIOUS
  <1>1. /\ nextTx <= MaxLogs /\ Emit(n, item) /\ new >= DeployBlock
        /\ Mine(log) /\ nextTx' = nextTx + 1
    BY <1>0 DEF MineLog
  <1>2. /\ chain \in Seq(Log \cup {NoLog}) /\ Len(chain) \in Nat /\ nextTx \in 1..(MaxLogs + 1)
    BY DEF BaseInv, TypeOK
  <1>3. s \in 0..4
    BY DEF StatusIn
  <1>4. /\ log \in Log /\ log.tx = nextTx /\ log.name = n /\ log.item = item
        /\ log.status = s /\ log.contract = k
    BY <1>1, <1>2, <1>3, IndexerBounds DEF Log, Contracts
  <1>5. nextTx' \in 1..(MaxLogs + 1) /\ nextTx' >= nextTx /\ nextTx < nextTx'
    BY <1>1, <1>2, IndexerBounds
  <1>6. chain' = Append(chain, log)
    BY <1>1 DEF Mine
  <1>7. k = IF n \in ClaimEvents THEN "claims" ELSE "policy"
    <2>1. item \in ClaimIds <=> item \notin PolicyIds
      BY IndexerItems DEF Items
    <2> QED
      BY <1>1, <2>1 DEF Emit, ClaimEvents, Events, Handled, Unknown, NoStatus
  <1>8. n \notin NoStatus => (n \in Opens <=> Untouched(item, new))
    <2>1. StatusAfter(1..Len(chain), item) = Null <=> Untouched(item, new)
      BY <1>0, <1>2, StatusIsNull
    <2>2. /\ ClaimStatusEnum[3] = "Approved" /\ ClaimStatusEnum[3] # Null
      BY IndexerItems DEF ClaimStatusEnum
    <2>3. n \notin NoStatus =>
            (n \in Opens <=> StatusAfter(1..Len(chain), item) = Null)
      <3> DEFINE was == StatusAfter(1..Len(chain), item)
      <3>1. Emit(n, item) =
              CASE n = "ClaimSubmitted" -> item \in ClaimIds /\ was = Null
                [] n = "ClaimStatusChanged" -> item \in ClaimIds /\ was # Null
                [] n \in {"ClaimPayout", "StuckPayoutReleased"} ->
                     item \in ClaimIds /\ was = "Approved"
                [] n = "OtherRegistryEvent" -> item \in ClaimIds
                [] n = "PolicyRegistered" -> item \in PolicyIds /\ was = Null
                [] n = "PolicyRevoked" -> item \in PolicyIds /\ was # Null
                [] OTHER -> item \in PolicyIds
        BY DEF Emit
      <3> HIDE DEF was
      <3>2. n \notin NoStatus => (n \in Opens <=> was = Null)
        BY <1>1, <2>2, <3>1 DEF Opens, Events, Handled, Unknown, NoStatus
      <3> QED
        BY <3>2 DEF was
    <2> QED
      BY <2>1, <2>3
  <1> HIDE DEF log, k
  <1>9. /\ chain'[new] = log /\ \A c \in 1..Len(chain) : chain'[c] = chain[c]
    BY <1>0, <1>2, <1>4, <1>6, AppendProperties
  <1>10. LogStands(new)'
    <2>1. new - 1 = Len(chain)
      BY <1>0, <1>2
    <2>2. ASSUME NEW c \in 1..(new - 1) PROVE chain'[c].tx < log.tx
      <3>1. chain[c] \in Log \cup {NoLog} /\ chain'[c] = chain[c]
        BY <1>2, <1>9, <2>1, ElementOfSeq
      <3>2. CASE chain[c] = NoLog
        <4>1. chain[c].tx = 0
          BY <3>2 DEF NoLog
        <4> QED
          BY <1>2, <1>4, <3>1, <4>1
      <3>3. CASE chain[c] # NoLog
        BY <1>4, <2>1, <3>1, <3>3 DEF BaseInv, ChainInv, LogStands
      <3> QED
        BY <3>2, <3>3
    <2>3. Untouched(item, new)' <=> Untouched(item, new)
      BY <1>9, <2>1 DEF Untouched
    <2> QED
      BY <1>1, <1>4, <1>5, <1>7, <1>8, <1>9, <2>2, <2>3 DEF LogStands, k
  <1> QED
    BY <1>0, <1>1, <1>4, <1>5, <1>10, MineKeeps
\* The chain falls back, but not below what is final.
LEMMA ReorgKeeps ==
  ASSUME BaseInv, NEW h \in 0..MaxBlocks, Reorg(h)
  PROVE  /\ BaseInv' /\ Len(chain') = h
         /\ \A b \in 1..h : b \in 1..Len(chain) /\ chain'[b] = chain[b]
  <1>1. /\ chain \in Seq(Log \cup {NoLog}) /\ maxHead \in Nat /\ nextTx \in Nat
        /\ Len(chain) \in Nat /\ h \in Nat
    BY IndexerBounds DEF BaseInv, TypeOK
  <1>2. /\ h < Len(chain) /\ h + MaxReorg >= maxHead /\ chain' = SubSeq(chain, 1, h)
        /\ reorgs' = reorgs + 1
        /\ UNCHANGED <<nextTx, maxHead, pc, scanVars, queue, events, mirror,
                       checkpoint, reports, torn, failures>>
    BY DEF Reorg
  <1>3. \A b \in 1..h : b \in 1..Len(chain) /\ chain[b] \in Log \cup {NoLog}
    BY <1>1, <1>2, ElementOfSeq
  <1>4. /\ chain' \in Seq(Log \cup {NoLog}) /\ Len(chain') = h
        /\ \A b \in 1..h : chain'[b] = chain[b]
    <2>1. 1 \in Int /\ h \in Int /\ h - 1 + 1 = h /\ (1 <= h <=> h # 0)
      BY <1>1
    <2>2. /\ chain' \in Seq(Log \cup {NoLog})
          /\ Len(chain') = IF 1 <= h THEN h - 1 + 1 ELSE 0
          /\ \A b \in 1..(h - 1 + 1) : chain'[b] = chain[1 + b - 1]
      BY <1>2, <1>3, <2>1, SubSeqProperties
    <2>3. \A b \in 1..h : 1 + b - 1 = b
      BY <1>1
    <2> QED
      BY <2>1, <2>2, <2>3
  <1>5. TypeOK'
    BY <1>1, <1>2, <1>4, IndexerBounds DEF BaseInv, TypeOK, scanVars
  <1>6. Len(chain') <= maxHead' /\ maxHead' <= Len(chain') + MaxReorg
    BY <1>1, <1>2, <1>4, IndexerBounds DEF BaseInv, ChainInv
  <1>7. ASSUME NEW b \in 1..Len(chain'), chain'[b] # NoLog
        PROVE  LogStands(b)'
    <2>1. b \in 1..h /\ b \in Nat /\ b >= 1
      BY <1>1, <1>4
    <2>2. chain'[b] = chain[b] /\ b \in 1..Len(chain) /\ chain[b] \in Log \cup {NoLog}
      BY <1>3, <1>4, <2>1
    <2>3. LogStands(b)
      BY <1>7, <2>2 DEF BaseInv, ChainInv
    <2>4. \A c \in 1..b : chain'[c] = chain[c]
      BY <1>1, <1>4, <2>1
    <2>5. chain[b].tx \in Nat
      BY <1>7, <2>2, IndexerBounds DEF Log
    <2>6. nextTx' \in Nat /\ nextTx' >= nextTx
      BY <1>1, <1>2
    <2> QED
      BY <1>1, <2>1, <2>3, <2>4, <2>5, <2>6, SameLog
  <1> QED
    BY <1>2, <1>3, <1>4, <1>5, <1>6, <1>7 DEF BaseInv, ChainInv, scanVars

\* The steps of the indexer leave the chain alone.
LEMMA OffChain ==
  ASSUME BaseInv, TypeOK', UNCHANGED chainVars,
         pc' # "fetch" \/ cursor' > 0 \/ UNCHANGED <<pc, cursor>>
  PROVE  BaseInv'
  BY DEF BaseInv, ChainInv, LogStands, Untouched, chainVars

\* The number of the block where a scan starts.
LEMMA FromIsBlock ==
  ASSUME TypeOK, NEW k \in Contracts
  PROVE  FromBlock(k) \in Nat /\ FromBlock(k) > 0 /\ SafeHead \in Nat
  <1>1. checkpoint[k] \in Nat \cup {Null} /\ Len(chain) \in Nat
    BY DEF TypeOK
  <1> QED
    BY <1>1, IndexerBounds DEF FromBlock, SafeHead

\* What a handler writes is a status of a row.
LEMMA RowIsStatus ==
  ASSUME NEW log \in Log
  PROVE  RowFor(log) \in RowStatus
  <1>1. log.status + 1 \in 1..5
    BY DEF Log
  <1>2. CLAIM_STATUS_NAMES[log.status + 1] \in RowStatus
    BY <1>1 DEF RowStatus
  <1>3. {"submitted", "paid", "registered", "revoked"} \subseteq RowStatus
    BY DEF RowStatus, CLAIM_STATUS_NAMES
  <1> QED
    BY <1>2, <1>3 DEF RowFor

\* Every step keeps the types and the chain in order.
LEMMA BaseNext == BaseInv /\ [Next]_vars => BaseInv'
  <1> SUFFICES ASSUME BaseInv, [Next]_vars PROVE BaseInv'
    OBVIOUS
  <1>1. TypeOK /\ ChainInv /\ contract \in Contracts /\ queue \in Seq(Log)
    BY DEF BaseInv, TypeOK
  <1>2. CASE MineEmpty
    <2>1. nextTx' \in 1..(MaxLogs + 1) /\ nextTx' >= nextTx /\ Mine(NoLog)
      BY <1>1, <1>2, IndexerBounds DEF MineEmpty, TypeOK
    <2> QED
      BY <2>1, MineKeeps
  <1>3. ASSUME NEW n \in Events, NEW item \in Items, NEW s \in StatusIn(n),
               MineLog(n, item, s)
        PROVE  BaseInv'
    BY <1>3, MineLogKeeps
  <1>4. ASSUME NEW h \in 0..MaxBlocks, Reorg(h) PROVE BaseInv'
    BY <1>4, ReorgKeeps
  <1>5. CASE StartScan
    <2>1. FromBlock(contract) \in Nat /\ FromBlock(contract) > 0 /\ SafeHead \in Nat
      BY <1>1, FromIsBlock
    <2>2. TypeOK' /\ UNCHANGED chainVars
      BY <1>1, <1>5, <2>1 DEF StartScan, NextContract, TypeOK, Contracts, chainVars
    <2> QED
      BY <1>5, <2>1, <2>2, OffChain DEF StartScan, NextContract
  <1>6. CASE FetchChunk
    <2>1. toBlock' \in Nat
      BY <1>1, <1>6, IndexerBounds DEF FetchChunk, TypeOK
    <2>2. queue' \in Seq(Log)
      <3>1. cursor \in Nat
        BY <1>1 DEF TypeOK
      <3>2. cursor > 0
        BY <1>6 DEF FetchChunk, BaseInv
      <3>3. \A b \in 1..Len(chain) : chain[b] # NoLog =>
              \A c \in 1..(b - 1) : chain[c].tx < chain[b].tx
        BY <1>1 DEF ChainInv, LogStands
      <3> QED
        BY <1>1, <1>6, <2>1, <3>1, <3>2, <3>3, GetLogs DEF FetchChunk, TypeOK
    <2>3. TypeOK' /\ UNCHANGED chainVars
      BY <1>1, <1>6, <2>1, <2>2 DEF FetchChunk, TypeOK, chainVars
    <2> QED
      BY <1>6, <2>3, OffChain DEF FetchChunk
  <1>7. ASSUME queue # << >>, queue' = Tail(queue)
        PROVE  queue' \in Seq(Log)
    BY <1>1, <1>7, HeadTailProperties
  <1>8. CASE SkipLog
    <2>1. TypeOK' /\ UNCHANGED chainVars
      BY <1>1, <1>7, <1>8 DEF SkipLog, TypeOK, chainVars, scanVars
    <2> QED
      BY <1>8, <2>1, OffChain DEF SkipLog
  <1>9. CASE EndChunk
    <2>1. checkpoint' \in [Contracts -> Nat \cup {Null}]
      BY <1>1, <1>9 DEF EndChunk, TypeOK
    <2>2. TypeOK' /\ UNCHANGED chainVars
      BY <1>1, <1>9, <2>1 DEF EndChunk, NextContract, TypeOK, Contracts, chainVars
    <2> QED
      BY <1>1, <1>9, <2>2, OffChain, SMTT(30) DEF EndChunk, NextContract, TypeOK
  <1>10. CASE AbortLog
    <2>1. TypeOK' /\ UNCHANGED chainVars
      BY <1>1, <1>10 DEF AbortLog, AbandonPass, TypeOK, Contracts, chainVars
    <2> QED
      BY <1>10, <2>1, OffChain DEF AbortLog, AbandonPass
  <1>11. ASSUME queue # << >>
         PROVE  Head(queue) \in Log /\ Head(queue).tx \in 1..MaxLogs /\ Head(queue).item \in Items
    <2>1. Head(queue) \in Log
      BY <1>1, <1>11, HeadTailProperties
    <2> QED
      BY <2>1 DEF Log
  <1>12. CASE persistRawEventOnce
    <2>1. TypeOK' /\ UNCHANGED chainVars
      BY <1>1, <1>11, <1>12 DEF persistRawEventOnce, TypeOK, chainVars, scanVars
    <2> QED
      BY <1>12, <2>1, OffChain DEF persistRawEventOnce
  <1>13. CASE WriteMirror
    <2>1. queue # << >>
      BY <1>1, <1>13 DEF WriteMirror, TypeOK
    <2>2. RowFor(Head(queue)) \in RowStatus
      BY <1>11, <2>1, RowIsStatus
    <2>3. mirror' \in [Items -> RowStatus \cup {Null}]
      BY <1>1, <1>11, <1>13, <2>1, <2>2 DEF WriteMirror, TypeOK
    <2>4. /\ queue' \in Seq(Log) /\ pc' \in {"report", "log"}
          /\ pc' = "report" => queue' # << >>
      BY <1>1, <1>7, <1>13, <2>1 DEF WriteMirror
    <2>5. UNCHANGED <<chainVars, scanVars, events, checkpoint, reports, torn, failures>>
      BY <1>13 DEF WriteMirror
    <2>6. TypeOK'
      BY <1>1, <2>3, <2>4, <2>5 DEF TypeOK, chainVars, scanVars
    <2> QED
      BY <2>4, <2>5, <2>6, OffChain
  <1>14. ASSUME NEW ok \in BOOLEAN, Report(ok)
         PROVE  BaseInv'
    <2>1. queue # << >>
      BY <1>1, <1>14 DEF Report, TypeOK
    <2>2. reports' \in [1..MaxLogs -> Nat]
      BY <1>1, <1>11, <1>14, <2>1 DEF Report, TypeOK
    <2>3. queue' \in Seq(Log) /\ pc' = "log"
      BY <1>7, <1>14, <2>1 DEF Report
    <2>4. UNCHANGED <<chainVars, scanVars, events, mirror, checkpoint, torn, failures>>
      BY <1>14 DEF Report
    <2>5. TypeOK'
      BY <1>1, <2>2, <2>3, <2>4 DEF TypeOK, chainVars, scanVars
    <2> QED
      BY <2>3, <2>4, <2>5, OffChain
  <1>15. CASE Fail
    <2>1. torn' \subseteq 1..MaxLogs
      BY <1>1, <1>11, <1>15 DEF Fail, TypeOK
    <2>2. TypeOK' /\ UNCHANGED chainVars
      BY <1>1, <1>15, <2>1 DEF Fail, AbandonPass, TypeOK, Contracts, chainVars
    <2> QED
      BY <1>15, <2>2, OffChain DEF Fail, AbandonPass
  <1>16. CASE UNCHANGED vars
    <2>1. TypeOK' /\ UNCHANGED chainVars
      BY <1>1, <1>16 DEF vars, scanVars, chainVars, TypeOK
    <2> QED
      BY <1>16, <2>1, OffChain DEF vars, scanVars
  <1> QED
    BY <1>2, <1>3, <1>4, <1>5, <1>6, <1>8, <1>9, <1>10, <1>12, <1>13, <1>14, <1>15,
       <1>16 DEF Next, ChainStep, IndexerStep

\* The chain, the scan's locals and the tables keep their types for every chain,
\* chunk size, and pattern of failures and reorganisations.
THEOREM IndexerTypeCorrect == Spec => []TypeOK
  <1>1. BaseInv => TypeOK
    BY DEF BaseInv
  <1> QED
    BY <1>1, BaseInit, BaseNext, PTL DEF Spec
-----------------------------------------------------------------------------
(* What the checkpoint covers, and what is stored *)

\* Blocks that no reorganisation can reach any more.
Final(b) == b + MaxReorg <= maxHead

AtLog == pc \in {"log", "mirror", "report"}

\* The scan starts after the checkpoint and stays below the safe head.
ScanInv ==
  /\ pc # "scan" => /\ cursor = FromBlock(contract)
                    /\ cursor <= safeHead /\ Final(safeHead)
  /\ AtLog => cursor <= toBlock /\ toBlock <= safeHead
  /\ \A k \in Contracts : checkpoint[k] # Null => Final(checkpoint[k])

\* The queue holds logs of the chunk's blocks in block order, and every handled
\* log of the chunk is stored or in the queue.
Queued ==
  /\ \A i \in 1..Len(queue) : \E b \in cursor..toBlock :
       queue[i] = chain[b] /\ chain[b].contract = contract
  /\ \A b \in cursor..toBlock :
       chain[b].contract = contract /\ chain[b].name \in Handled =>
         chain[b].tx \in events \/ \E i \in 1..Len(queue) : queue[i] = chain[b]
  /\ \A i, j \in 1..Len(queue) : i < j => queue[i].tx < queue[j].tx

\* What is stored came from a final block.
Stored ==
  \A t \in events : \E b \in 1..Len(chain) :
    chain[b].tx = t /\ Final(b) /\ chain[b].name \in Handled

StoreInv ==
  /\ ScanInv /\ Stored /\ CheckpointCovers
  /\ AtLog => Queued
  /\ UnderWay => Head(queue).tx \in events

\* Nothing is stored at first.
LEMMA StoreInit == Init => StoreInv
  BY DEF Init, StoreInv, ScanInv, Stored, CheckpointCovers, AtLog, UnderWay, Contracts

\* The highest head never falls.
LEMMA HeadGrows ==
  ASSUME BaseInv, [Next]_vars
  PROVE  maxHead' \in Nat /\ maxHead' >= maxHead
  <1>1. maxHead \in Nat /\ Len(chain) \in Nat
    BY DEF BaseInv, TypeOK
  <1>2. \/ maxHead' = maxHead
        \/ maxHead' = IF Len(chain) + 1 > maxHead THEN Len(chain) + 1 ELSE maxHead
    BY DEF Next, ChainStep, MineEmpty, MineLog, Mine, Reorg, IndexerStep, StartScan,
           FetchChunk, SkipLog, EndChunk, AbortLog, persistRawEventOnce, WriteMirror,
           Report, Fail, vars, chainVars
  <1> QED
    BY <1>1, <1>2

\* A final block stays as it is.
LEMMA FinalStays ==
  ASSUME BaseInv, [Next]_vars, NEW b \in Nat, b >= 1, Final(b)
  PROVE  /\ b \in 1..Len(chain) /\ b \in 1..Len(chain')
         /\ chain'[b] = chain[b] /\ Final(b)'
  <1>1. /\ chain \in Seq(Log \cup {NoLog}) /\ maxHead \in Nat /\ Len(chain) \in Nat
        /\ maxHead <= Len(chain) + MaxReorg
    BY DEF BaseInv, TypeOK, ChainInv
  <1>2. b \in 1..Len(chain)
    BY <1>1, IndexerBounds DEF Final
  <1>3. CASE UNCHANGED <<chain, maxHead>>
    BY <1>2, <1>3 DEF Final
  <1>4. ASSUME NEW log, Mine(log), log \in Log \cup {NoLog}
        PROVE  b \in 1..Len(chain') /\ chain'[b] = chain[b] /\ Final(b)'
    <2>1. chain' = Append(chain, log)
          /\ maxHead' = IF Len(chain) + 1 > maxHead THEN Len(chain) + 1 ELSE maxHead
      BY <1>4 DEF Mine
    <2>2. Len(chain') = Len(chain) + 1 /\ \A c \in 1..Len(chain) : chain'[c] = chain[c]
      BY <1>1, <1>4, <2>1, AppendProperties
    <2> QED
      BY <1>1, <1>2, <2>1, <2>2, IndexerBounds DEF Final
  <1>5. CASE MineEmpty
    BY <1>2, <1>4, <1>5 DEF MineEmpty
  <1>6. ASSUME NEW n \in Events, NEW item \in Items, NEW s \in StatusIn(n),
               MineLog(n, item, s)
        PROVE  b \in 1..Len(chain') /\ chain'[b] = chain[b] /\ Final(b)'
    <2> DEFINE log == [tx |-> nextTx, name |-> n, item |-> item, status |-> s,
                       contract |-> IF item \in ClaimIds THEN "claims" ELSE "policy"]
    <2>1. Mine(log) /\ nextTx <= MaxLogs
      BY <1>6 DEF MineLog
    <2>2. log \in Log
      BY <2>1, IndexerBounds DEF Log, Contracts, StatusIn, Events, Handled, BaseInv, TypeOK
    <2> HIDE DEF log
    <2> QED
      BY <1>4, <2>1, <2>2
  <1>7. ASSUME NEW h \in 0..MaxBlocks, Reorg(h)
        PROVE  b \in 1..Len(chain') /\ chain'[b] = chain[b] /\ Final(b)'
    <2>1. h + MaxReorg >= maxHead /\ maxHead' = maxHead
      BY <1>7 DEF Reorg
    <2>2. b \in 1..h
      BY <1>1, <2>1, IndexerBounds DEF Final
    <2> QED
      BY <1>7, <2>1, <2>2, ReorgKeeps DEF Final
  <1>8. CASE ChainStep
    BY <1>2, <1>5, <1>6, <1>7, <1>8 DEF ChainStep
  <1>9. CASE IndexerStep \/ Fail \/ UNCHANGED vars
    <2>1. UNCHANGED <<chain, maxHead>>
      BY <1>9 DEF IndexerStep, StartScan, FetchChunk, SkipLog, EndChunk, AbortLog,
                  persistRawEventOnce, WriteMirror, Report, Fail, vars, chainVars
    <2> QED
      BY <1>3, <2>1
  <1> QED
    BY <1>8, <1>9 DEF Next

\* The blocks of a chunk are final.
LEMMA ChunkIsFinal ==
  ASSUME BaseInv, ScanInv, AtLog, NEW b \in cursor..toBlock
  PROVE  b \in Nat /\ b >= 1 /\ Final(b) /\ b \in 1..Len(chain)
  <1>1. /\ cursor \in Nat /\ toBlock \in Nat /\ safeHead \in Nat /\ maxHead \in Nat
        /\ Len(chain) \in Nat /\ contract \in Contracts
    BY DEF BaseInv, TypeOK
  <1>2. cursor > 0 /\ toBlock <= safeHead /\ safeHead + MaxReorg <= maxHead
    BY <1>1, FromIsBlock DEF ScanInv, AtLog, Final, BaseInv
  <1>3. maxHead <= Len(chain) + MaxReorg
    BY DEF BaseInv, ChainInv
  <1> QED
    BY <1>1, <1>2, <1>3, IndexerBounds DEF Final

\* So are the blocks that a checkpoint covers.
LEMMA CoveredIsFinal ==
  ASSUME BaseInv, ScanInv, NEW k \in Contracts, checkpoint[k] # Null,
         NEW b \in DeployBlock..checkpoint[k]
  PROVE  b \in Nat /\ b >= 1 /\ Final(b) /\ b \in 1..Len(chain)
  <1>1. checkpoint[k] \in Nat /\ maxHead \in Nat /\ Len(chain) \in Nat
    BY DEF BaseInv, TypeOK
  <1>2. checkpoint[k] + MaxReorg <= maxHead /\ maxHead <= Len(chain) + MaxReorg
    BY DEF ScanInv, Final, BaseInv, ChainInv
  <1> QED
    BY <1>1, <1>2, IndexerBounds DEF Final

\* A step that stores nothing keeps what is stored, and with the checkpoint
\* unchanged what that covers.
LEMMA StoredStays ==
  ASSUME BaseInv, StoreInv, [Next]_vars, events' = events
  PROVE  Stored'
  <1> SUFFICES ASSUME NEW t \in events
               PROVE  \E b \in 1..Len(chain') : /\ chain'[b].tx = t /\ Final(b)'
                                                /\ chain'[b].name \in Handled
    BY DEF Stored
  <1>1. PICK b \in 1..Len(chain) : chain[b].tx = t /\ Final(b) /\ chain[b].name \in Handled
    BY DEF StoreInv, Stored
  <1>2. b \in Nat /\ b >= 1
    OBVIOUS
  <1> QED
    BY <1>1, <1>2, FinalStays

\* What a checkpoint covers stays covered.
LEMMA CoverStays ==
  ASSUME BaseInv, StoreInv, [Next]_vars, events \subseteq events',
         NEW k \in Contracts, checkpoint'[k] = checkpoint[k], checkpoint[k] # Null
  PROVE  /\ Final(checkpoint[k]) /\ (Final(checkpoint[k]))'
         /\ \A b \in DeployBlock..checkpoint'[k] :
              /\ b <= Len(chain')
              /\ chain'[b].contract = k /\ chain'[b].name \in Handled =>
                   chain'[b].tx \in events'
  <1>0. PICK n : n = checkpoint[k]
    OBVIOUS
  <1>1. Final(n) /\ n \in Nat /\ maxHead \in Nat
    BY <1>0 DEF StoreInv, ScanInv, BaseInv, TypeOK
  <1>2. ASSUME NEW b \in DeployBlock..n
        PROVE  /\ b <= Len(chain')
               /\ chain'[b].contract = k /\ chain'[b].name \in Handled =>
                    chain'[b].tx \in events'
    <2>1. b \in Nat /\ b >= 1 /\ Final(b)
      BY <1>0, CoveredIsFinal DEF StoreInv
    <2>2. b \in 1..Len(chain') /\ chain'[b] = chain[b]
      BY <2>1, FinalStays
    <2> QED
      BY <1>0, <2>2 DEF StoreInv, CheckpointCovers
  <1>3. Final(n)'
    BY <1>1, HeadGrows, IndexerBounds DEF Final
  <1> QED
    BY <1>0, <1>1, <1>2, <1>3
\* The same for all checkpoints, in a step that sets none.
LEMMA CoversStay ==
  ASSUME BaseInv, StoreInv, [Next]_vars, events \subseteq events', checkpoint' = checkpoint
  PROVE  CheckpointCovers' /\ \A k \in Contracts : checkpoint'[k] # Null => Final(checkpoint[k])'
  <1>1. ASSUME NEW k \in Contracts, checkpoint[k] # Null
        PROVE  /\ Final(checkpoint[k])'
               /\ \A b \in DeployBlock..checkpoint'[k] :
                    /\ b <= Len(chain')
                    /\ chain'[b].contract = k /\ chain'[b].name \in Handled =>
                         chain'[b].tx \in events'
    BY <1>1, CoverStays
  <1> QED
    BY <1>1 DEF CheckpointCovers

\* A step of the chain.
LEMMA ChainStores ==
  ASSUME BaseInv, StoreInv, ChainStep
  PROVE  StoreInv'
  <1>1. UNCHANGED <<pc, contract, safeHead, cursor, toBlock, queue, events, checkpoint>>
    BY DEF ChainStep, MineEmpty, MineLog, Mine, Reorg, scanVars
  <1>2. [Next]_vars
    BY DEF Next
  <1>3. Stored' /\ CheckpointCovers'
        /\ \A k \in Contracts : checkpoint'[k] # Null => Final(checkpoint[k])'
    BY <1>1, <1>2, StoredStays, CoversStay
  <1>4. Final(safeHead) => Final(safeHead)'
    BY <1>1, <1>2, HeadGrows, IndexerBounds DEF Final, BaseInv, TypeOK
  <1>5. ScanInv'
    BY <1>1, <1>3, <1>4 DEF StoreInv, ScanInv, AtLog, FromBlock
  <1>6. AtLog' => Queued'
    <2> SUFFICES ASSUME AtLog' PROVE Queued'
      OBVIOUS
    <2>1. AtLog /\ Queued
      BY <1>1 DEF StoreInv, AtLog
    <2>2. \A b \in cursor..toBlock : chain'[b] = chain[b]
      BY <1>2, <2>1, ChunkIsFinal, FinalStays DEF StoreInv
    <2> QED
      BY <1>1, <2>1, <2>2 DEF Queued
  <1>7. UnderWay' => Head(queue').tx \in events'
    BY <1>1 DEF StoreInv, UnderWay
  <1> QED
    BY <1>3, <1>5, <1>6, <1>7 DEF StoreInv

\* A step that ends or starts a scan without touching the tables.
LEMMA OffQueue ==
  ASSUME BaseInv, StoreInv, [Next]_vars, UNCHANGED <<chain, maxHead, events, checkpoint>>,
         ~AtLog', pc' # "scan" => /\ cursor' = FromBlock(contract)' /\ cursor' <= safeHead'
                                  /\ Final(safeHead)'
  PROVE  StoreInv'
  <1>1. Stored' /\ CheckpointCovers'
        /\ \A k \in Contracts : checkpoint'[k] # Null => Final(checkpoint[k])'
    BY StoredStays, CoversStay
  <1>2. ScanInv'
    BY <1>1 DEF ScanInv
  <1>3. ~UnderWay'
    BY DEF AtLog, UnderWay
  <1> QED
    BY <1>1, <1>2, <1>3 DEF StoreInv

\* The head of the queue is done with: it is stored or has no handler.
LEMMA DropHead ==
  ASSUME BaseInv, StoreInv, [Next]_vars, AtLog, pc' = "log", queue # << >>,
         queue' = Tail(queue), Head(queue).name \in Handled => Head(queue).tx \in events,
         UNCHANGED <<chain, maxHead, contract, safeHead, cursor, toBlock, events, checkpoint>>
  PROVE  StoreInv'
  <1>1. Stored' /\ CheckpointCovers'
        /\ \A k \in Contracts : checkpoint'[k] # Null => Final(checkpoint[k])'
    BY StoredStays, CoversStay
  <1>2. ScanInv'
    BY <1>1 DEF StoreInv, ScanInv, AtLog, FromBlock, Final
  <1>3. /\ queue \in Seq(Log) /\ Len(queue) \in Nat /\ Head(queue) = queue[1]
        /\ Len(queue') = Len(queue) - 1 /\ \A i \in 1..Len(queue') : queue'[i] = queue[i + 1]
    BY HeadTailProperties DEF BaseInv, TypeOK
  <1>4. \A i \in 1..Len(queue') : i + 1 \in 1..Len(queue)
    BY <1>3
  <1>5. \A i \in 1..Len(queue) : i = 1 \/ (i - 1 \in 1..Len(queue') /\ queue'[i - 1] = queue[i])
    BY <1>3
  <1>6. Queued
    BY DEF StoreInv
  <1>7. \A i \in 1..Len(queue') : \E b \in cursor..toBlock :
          queue'[i] = chain[b] /\ chain[b].contract = contract
    <2> SUFFICES ASSUME NEW i \in 1..Len(queue')
                 PROVE  \E b \in cursor..toBlock :
                          queue'[i] = chain[b] /\ chain[b].contract = contract
      OBVIOUS
    <2>1. i + 1 \in 1..Len(queue) /\ queue'[i] = queue[i + 1]
      BY <1>3, <1>4
    <2> QED BY <1>6, <2>1 DEF Queued
  <1>8. \A b \in cursor..toBlock :
          chain[b].contract = contract /\ chain[b].name \in Handled =>
            chain[b].tx \in events \/ \E i \in 1..Len(queue') : queue'[i] = chain[b]
    <2> SUFFICES ASSUME NEW b \in cursor..toBlock, chain[b].contract = contract,
                        chain[b].name \in Handled, chain[b].tx \notin events
                 PROVE  \E i \in 1..Len(queue') : queue'[i] = chain[b]
      OBVIOUS
    <2>1. PICK i \in 1..Len(queue) : queue[i] = chain[b]
      BY <1>6 DEF Queued
    <2>2. i # 1
      BY <1>3, <2>1
    <2> QED
      BY <1>5, <2>1, <2>2
  <1>9. \A i, j \in 1..Len(queue') : i < j => queue'[i].tx < queue'[j].tx
    <2> TAKE i, j \in 1..Len(queue')
    <2> HAVE i < j
    <2>1. i + 1 \in 1..Len(queue) /\ j + 1 \in 1..Len(queue) /\ i + 1 < j + 1
      BY <1>3, <1>4
    <2> QED
      BY <1>3, <1>6, <2>1 DEF Queued
  <1>10. Queued'
    BY <1>7, <1>8, <1>9 DEF Queued
  <1>11. ~UnderWay'
    BY DEF UnderWay
  <1> QED
    BY <1>1, <1>2, <1>10, <1>11 DEF StoreInv
\* scanContract up to the loop: the safe head is final if the reorganisations are
\* no deeper than REORG_SAFETY_BLOCKS.
LEMMA StartStores ==
  ASSUME MaxReorg <= ReorgSafety, BaseInv, StoreInv, StartScan
  PROVE  StoreInv'
  <1>1. /\ [Next]_vars /\ UNCHANGED <<chain, maxHead, events, checkpoint>>
        /\ pc' \in {"scan", "fetch"}
    BY DEF Next, IndexerStep, StartScan, NextContract, chainVars
  <1>2. /\ TypeOK /\ contract \in Contracts /\ Len(chain) \in Nat /\ maxHead \in Nat
        /\ Len(chain) <= maxHead
    BY DEF BaseInv, TypeOK, ChainInv
  <1>3. FromBlock(contract) \in Nat /\ FromBlock(contract) > 0 /\ SafeHead \in Nat
    BY <1>2, FromIsBlock
  <1>4. CASE pc' = "fetch"
    <2>1. /\ ~(FromBlock(contract) > SafeHead) /\ safeHead' = SafeHead
          /\ cursor' = FromBlock(contract) /\ contract' = contract
      BY <1>4 DEF StartScan, NextContract
    <2>2. FromBlock(contract)' = FromBlock(contract)
      BY <1>1, <2>1 DEF FromBlock
    <2>3. Len(chain) > ReorgSafety /\ SafeHead = Len(chain) - ReorgSafety
      BY <1>2, <1>3, <2>1, IndexerBounds DEF SafeHead
    <2>4. Final(safeHead)'
      BY <1>1, <1>2, <2>1, <2>3, IndexerBounds DEF Final
    <2>5. cursor' <= safeHead' /\ ~AtLog'
      BY <1>3, <1>4, <2>1 DEF AtLog
    <2> QED
      BY <1>1, <2>1, <2>2, <2>4, <2>5, OffQueue
  <1>5. CASE pc' = "scan"
    BY <1>1, <1>5, OffQueue DEF AtLog
  <1> QED
    BY <1>1, <1>4, <1>5

\* getLogs fills the queue with the logs of the chunk.
LEMMA FetchStores ==
  ASSUME BaseInv, StoreInv, FetchChunk
  PROVE  StoreInv'
  <1>1. /\ [Next]_vars /\ UNCHANGED <<chain, maxHead, contract, safeHead, cursor, events, checkpoint>>
        /\ pc = "fetch" /\ pc' = "log" /\ queue' = getLogs(cursor, toBlock')
        /\ toBlock' = IF cursor + ChunkSize - 1 < safeHead
                      THEN cursor + ChunkSize - 1 ELSE safeHead
    BY DEF Next, IndexerStep, FetchChunk, chainVars
  <1>2. /\ TypeOK /\ contract \in Contracts /\ cursor \in Nat /\ safeHead \in Nat
        /\ cursor > 0 /\ maxHead \in Nat /\ Len(chain) \in Nat
        /\ chain \in Seq(Log \cup {NoLog}) /\ maxHead <= Len(chain) + MaxReorg
    BY <1>1 DEF BaseInv, TypeOK, ChainInv
  <1>3. cursor = FromBlock(contract) /\ cursor <= safeHead /\ Final(safeHead)
    BY <1>1 DEF StoreInv, ScanInv
  <1>4. toBlock' \in Nat /\ cursor <= toBlock' /\ toBlock' <= safeHead
    BY <1>1, <1>2, <1>3, IndexerBounds
  <1>5. Stored' /\ CheckpointCovers'
        /\ \A k \in Contracts : checkpoint'[k] # Null => Final(checkpoint[k])'
    BY <1>1, StoredStays, CoversStay
  <1>6. ScanInv'
    BY <1>1, <1>3, <1>4, <1>5 DEF ScanInv, FromBlock, Final
  <1>7. \A b \in 1..Len(chain) : chain[b] # NoLog =>
          \A c \in 1..(b - 1) : chain[c].tx < chain[b].tx
    BY DEF BaseInv, ChainInv, LogStands
  <1>71. PICK to : to = toBlock'
    OBVIOUS
  <1>72. PICK q : q = getLogs(cursor, to)
    OBVIOUS
  <1>73. queue' = q /\ to \in Nat /\ cursor <= to
    BY <1>1, <1>4, <1>71, <1>72
  <1>74. /\ \A i \in 1..Len(q) : \E b \in Fetched(cursor, to) : q[i] = chain[b]
         /\ \A b \in Fetched(cursor, to) : \E i \in 1..Len(q) : q[i] = chain[b]
         /\ \A i, j \in 1..Len(q) : i < j => q[i].tx < q[j].tx
    BY <1>2, <1>7, <1>72, <1>73, GetLogs, ZenonT(60)
  <1>8. /\ \A i \in 1..Len(queue') : \E b \in Fetched(cursor, to) : queue'[i] = chain[b]
        /\ \A b \in Fetched(cursor, to) : \E i \in 1..Len(queue') : queue'[i] = chain[b]
        /\ \A i, j \in 1..Len(queue') : i < j => queue'[i].tx < queue'[j].tx
    BY <1>73, <1>74
  <1>9. \A b \in cursor..toBlock' : b <= Len(chain)
    BY <1>2, <1>3, <1>4, IndexerBounds DEF Final
  <1>10. Queued'
    BY <1>1, <1>71, <1>8, <1>9 DEF Queued, Fetched
  <1> QED
    BY <1>1, <1>5, <1>6, <1>10 DEF StoreInv, UnderWay

\* setLastProcessedBlock: all logs of the chunk are stored by now.
LEMMA EndStores ==
  ASSUME BaseInv, StoreInv, EndChunk
  PROVE  StoreInv'
  <1>1. /\ [Next]_vars /\ UNCHANGED <<chain, maxHead, events>> /\ pc = "log" /\ queue = << >>
        /\ checkpoint' = [checkpoint EXCEPT ![contract] = toBlock]
        /\ pc' \in {"scan", "fetch"}
        /\ pc' = "fetch" => /\ toBlock < safeHead /\ cursor' = toBlock + 1
                            /\ UNCHANGED <<contract, safeHead>>
    BY DEF Next, IndexerStep, EndChunk, NextContract, chainVars
  <1>2. /\ contract \in Contracts /\ cursor \in Nat /\ safeHead \in Nat /\ toBlock \in Nat
        /\ checkpoint \in [Contracts -> Nat \cup {Null}] /\ maxHead \in Nat
        /\ TypeOK /\ Len(chain) \in Nat
    BY DEF BaseInv, TypeOK
  <1>3. /\ cursor = FromBlock(contract) /\ cursor <= toBlock /\ toBlock <= safeHead
        /\ Final(safeHead) /\ Queued /\ AtLog
    BY <1>1 DEF StoreInv, ScanInv, AtLog
  <1>4. Final(toBlock)
    BY <1>2, <1>3, IndexerBounds DEF Final
  <1>5. ASSUME NEW k \in Contracts, k # contract, checkpoint[k] # Null
        PROVE  /\ Final(checkpoint[k])
               /\ \A b \in DeployBlock..checkpoint[k] :
                    /\ b <= Len(chain)
                    /\ chain[b].contract = k /\ chain[b].name \in Handled =>
                         chain[b].tx \in events
    BY <1>5 DEF StoreInv, ScanInv, CheckpointCovers
  <1>6. ASSUME NEW b \in DeployBlock..toBlock
        PROVE  /\ b <= Len(chain)
               /\ chain[b].contract = contract /\ chain[b].name \in Handled =>
                    chain[b].tx \in events
    <2>1. CASE b < cursor
      <3>1. checkpoint[contract] # Null /\ b <= checkpoint[contract]
        BY <1>2, <1>3, <2>1, IndexerBounds DEF FromBlock
      <3> QED
        BY <1>2, <3>1, IndexerBounds DEF StoreInv, CheckpointCovers
    <2>2. CASE b >= cursor
      <3>1. b \in cursor..toBlock
        BY <1>2, <2>2, IndexerBounds
      <3>2. b \in 1..Len(chain)
        BY <1>3, <3>1, ChunkIsFinal DEF StoreInv
      <3>3. ~ \E i \in 1..Len(queue) : queue[i] = chain[b]
        BY <1>1
      <3> QED
        BY <1>3, <3>1, <3>2, <3>3 DEF Queued
    <2> QED
      BY <1>2, <2>1, <2>2, IndexerBounds
  <1>7. checkpoint'[contract] = toBlock
        /\ \A k \in Contracts : k # contract => checkpoint'[k] = checkpoint[k]
    BY <1>1, <1>2
  <1>8. CheckpointCovers'
    BY <1>1, <1>5, <1>6, <1>7 DEF CheckpointCovers
  <1>9. \A k \in Contracts : checkpoint'[k] # Null => Final(checkpoint'[k])
    BY <1>4, <1>5, <1>7
  <1>10. pc' # "scan" => /\ cursor' = FromBlock(contract)' /\ cursor' <= safeHead'
                         /\ Final(safeHead)'
    <2>1. toBlock # Null
      BY <1>2, IndexerItems
    <2> QED
      BY <1>1, <1>2, <1>3, <1>7, <2>1 DEF FromBlock, Final
  <1>11. ScanInv'
    BY <1>1, <1>9, <1>10 DEF ScanInv, AtLog, Final
  <1>12. Stored'
    BY <1>1, StoredStays
  <1> QED
    BY <1>1, <1>8, <1>11, <1>12 DEF StoreInv, AtLog, UnderWay

\* persistRawEventOnce stores the head of the queue, which is final.
LEMMA PersistStores ==
  ASSUME BaseInv, StoreInv, persistRawEventOnce
  PROVE  StoreInv'
  <1>1. /\ [Next]_vars
        /\ UNCHANGED <<chain, maxHead, contract, safeHead, cursor, toBlock, queue, checkpoint>>
        /\ pc = "log" /\ pc' = "mirror" /\ queue # << >>
        /\ Head(queue).name \in Handled /\ events' = events \cup {Head(queue).tx}
    BY DEF Next, IndexerStep, persistRawEventOnce, chainVars, scanVars
  <1>2. AtLog /\ Queued /\ ScanInv /\ Stored
    BY <1>1 DEF StoreInv, AtLog
  <1>3. Head(queue) = queue[1] /\ 1 \in 1..Len(queue)
    BY <1>1 DEF BaseInv, TypeOK
  <1>4. PICK b \in cursor..toBlock : queue[1] = chain[b]
    BY <1>2, <1>3 DEF Queued
  <1>5. b \in 1..Len(chain) /\ Final(b)
    BY <1>2, <1>4, ChunkIsFinal
  <1>6. Stored'
    BY <1>1, <1>2, <1>3, <1>4, <1>5 DEF Stored, Final
  <1>7. CheckpointCovers'
        /\ \A k \in Contracts : checkpoint'[k] # Null => Final(checkpoint[k])'
    BY <1>1, CoversStay
  <1>8. ScanInv'
    BY <1>1, <1>2, <1>7 DEF ScanInv, AtLog, FromBlock, Final
  <1>9. Queued'
    BY <1>1, <1>2 DEF Queued
  <1> QED
    BY <1>1, <1>6, <1>7, <1>8, <1>9 DEF StoreInv

\* The step from the mirror to the webhook.
LEMMA ReportingStores ==
  ASSUME BaseInv, StoreInv, WriteMirror, pc' = "report", queue' = queue
  PROVE  StoreInv'
  <1>1. /\ [Next]_vars /\ pc = "mirror"
        /\ UNCHANGED <<chain, maxHead, contract, safeHead, cursor, toBlock, events, checkpoint>>
    BY DEF Next, IndexerStep, WriteMirror, chainVars, scanVars
  <1>2. AtLog /\ Queued /\ ScanInv /\ Head(queue).tx \in events
    BY <1>1 DEF StoreInv, AtLog, UnderWay
  <1>3. Stored' /\ CheckpointCovers'
        /\ \A k \in Contracts : checkpoint'[k] # Null => Final(checkpoint[k])'
    BY <1>1, StoredStays, CoversStay
  <1>4. ScanInv'
    BY <1>1, <1>2, <1>3 DEF ScanInv, AtLog, FromBlock, Final
  <1>5. Queued'
    BY <1>1, <1>2 DEF Queued
  <1> QED
    BY <1>1, <1>2, <1>3, <1>4, <1>5 DEF StoreInv

\* Every step keeps the invariant.
LEMMA StoreNext ==
  ASSUME MaxReorg <= ReorgSafety
  PROVE  BaseInv /\ StoreInv /\ [Next]_vars => StoreInv'
  <1> SUFFICES ASSUME BaseInv, StoreInv, [Next]_vars PROVE StoreInv'
    OBVIOUS
  <1>1. CASE SkipLog
    <2>1. /\ AtLog /\ pc' = "log" /\ queue # << >> /\ queue' = Tail(queue)
          /\ Head(queue).name \in Handled => Head(queue).tx \in events
          /\ UNCHANGED <<chain, maxHead, contract, safeHead, cursor, toBlock, events, checkpoint>>
      BY <1>1 DEF SkipLog, AtLog, chainVars, scanVars
    <2> QED
      BY <2>1, DropHead
  <1>2. CASE WriteMirror
    <2>1. AtLog /\ queue # << >> /\ Head(queue).tx \in events
      BY <1>2 DEF WriteMirror, StoreInv, UnderWay, AtLog, BaseInv, TypeOK
    <2>2. UNCHANGED <<chain, maxHead, contract, safeHead, cursor, toBlock, events, checkpoint>>
      BY <1>2 DEF WriteMirror, chainVars, scanVars
    <2>3. \/ pc' = "report" /\ queue' = queue
          \/ pc' = "log" /\ queue' = Tail(queue)
      BY <1>2 DEF WriteMirror
    <2> QED
      BY <1>2, <2>1, <2>2, <2>3, DropHead, ReportingStores
  <1>3. ASSUME NEW ok \in BOOLEAN, Report(ok)
        PROVE  StoreInv'
    <2>1. AtLog /\ queue # << >> /\ Head(queue).tx \in events
      BY <1>3 DEF Report, StoreInv, UnderWay, AtLog, BaseInv, TypeOK
    <2>2. /\ pc' = "log" /\ queue' = Tail(queue)
          /\ UNCHANGED <<chain, maxHead, contract, safeHead, cursor, toBlock, events, checkpoint>>
      BY <1>3 DEF Report, chainVars, scanVars
    <2> QED
      BY <2>1, <2>2, DropHead
  <1>4. CASE AbortLog \/ Fail
    BY <1>4, OffQueue DEF AbortLog, Fail, AbandonPass, AtLog, chainVars
  <1>5. CASE UNCHANGED vars
    BY <1>5 DEF vars, chainVars, scanVars, StoreInv, ScanInv, Stored, CheckpointCovers,
                Queued, AtLog, UnderWay, FromBlock, Final
  <1> QED
    BY <1>1, <1>2, <1>3, <1>4, <1>5, ChainStores, StartStores, FetchStores, EndStores,
       PersistStores DEF Next, IndexerStep

\* setLastProcessedBlock never runs ahead of the store: up to its checkpoint no
\* handled log of a contract is missing, over failures, restarts and shallow reorgs.
THEOREM CheckpointsCover ==
  ASSUME MaxReorg <= ReorgSafety
  PROVE  Spec => []CheckpointCovers
  <1>1. StoreInv => CheckpointCovers
    BY DEF StoreInv
  <1> QED
    BY <1>1, BaseInit, BaseNext, StoreInit, StoreNext, PTL DEF Spec

\* REORG_SAFETY_BLOCKS does its work: what persistRawEventOnce stored never leaves
\* the chain, if no reorganisation is deeper.
THEOREM StoredStaysFinal ==
  ASSUME MaxReorg <= ReorgSafety
  PROVE  Spec => []StoredIsFinal
  <1>1. StoreInv => StoredIsFinal
    BY DEF StoreInv, Stored, StoredIsFinal
  <1> QED
    BY <1>1, BaseInit, BaseNext, StoreInit, StoreNext, PTL DEF Spec
-----------------------------------------------------------------------------
(* What the rows show *)

\* Logs of a contract are stored in block order, without gaps.
StoredInOrder ==
  \A b \in StoredLogs : \A c \in 1..(b - 1) :
    chain[c].contract = chain[b].contract /\ chain[c].name \in Handled =>
      chain[c].tx \in events

\* The log that a handler is about to apply is the latest stored of its contract.
HeadIsLast ==
  pc = "mirror" => \A c \in StoredLogs :
    chain[c].contract = Head(queue).contract => chain[c].tx <= Head(queue).tx

\* Blocks whose logs the handlers have applied to an item.
Applied(i) ==
  {b \in StoredLogs : chain[b].item = i /\ ~(pc = "mirror" /\ chain[b].tx = Head(queue).tx)}

\* The row of an item is what the last log applied to it says.
RowStands(i) ==
  /\ mirror[i] # Null => Applied(i) # {}
  /\ \A b \in Applied(i) : (\A c \in Applied(i) : c <= b) => mirror[i] = RowFor(chain[b])

MirrorInv ==
  /\ StoredInOrder /\ HeadIsLast
  /\ torn = {} => \A i \in Items : RowStands(i)

\* Nothing is stored at first.
LEMMA MirrorInit == Init => MirrorInv
  BY DEF Init, MirrorInv, StoredInOrder, HeadIsLast, RowStands, Applied, StoredLogs

\* Two blocks with the log of one transaction are the same block.
LEMMA TxIsBlock ==
  ASSUME NEW ch \in Seq(Log \cup {NoLog}), NEW b \in 1..Len(ch), NEW c \in 1..Len(ch),
         \A x \in 1..Len(ch) : ch[x] # NoLog => \A y \in 1..(x - 1) : ch[y].tx < ch[x].tx,
         ch[b].tx = ch[c].tx, ch[b].tx # 0
  PROVE  b = c
  <1>1. ch[b] # NoLog /\ ch[c] # NoLog
    BY DEF NoLog
  <1>2. ch[b] \in Log /\ ch[c] \in Log
    BY <1>1, ElementOfSeq
  <1>3. ch[b].tx \in Nat /\ ch[c].tx \in Nat
    BY <1>2, IndexerBounds DEF Log
  <1>4. ~(b < c) /\ ~(c < b)
    BY <1>1, <1>3
  <1> QED
    BY <1>4

\* What is known of a stored log.
LEMMA StoredBlock ==
  ASSUME BaseInv, StoreInv, NEW b \in StoredLogs
  PROVE  /\ b \in 1..Len(chain) /\ b \in Nat /\ b >= 1 /\ Final(b)
         /\ chain[b] \in Log /\ chain[b].name \in Handled /\ LogStands(b)
  <1>1. b \in 1..Len(chain) /\ chain[b].tx \in events /\ chain \in Seq(Log \cup {NoLog})
    BY DEF StoredLogs, BaseInv, TypeOK
  <1>2. PICK d \in 1..Len(chain) : chain[d].tx = chain[b].tx /\ Final(d) /\ chain[d].name \in Handled
    BY <1>1 DEF StoreInv, Stored
  <1>3. chain[b].tx # 0
    BY <1>1, IndexerBounds DEF BaseInv, TypeOK
  <1>4. \A x \in 1..Len(chain) : chain[x] # NoLog => \A y \in 1..(x - 1) : chain[y].tx < chain[x].tx
    BY DEF BaseInv, ChainInv, LogStands
  <1>5. b = d
    BY <1>1, <1>2, <1>3, <1>4, TxIsBlock
  <1>6. chain[b] # NoLog
    BY <1>3 DEF NoLog
  <1>7. chain[b] \in Log
    BY <1>1, <1>6, ElementOfSeq
  <1> QED
    BY <1>1, <1>2, <1>5, <1>6, <1>7 DEF BaseInv, ChainInv

\* Steps of the chain and of the scan leave the stored logs where they are.
LEMMA StoredKept ==
  ASSUME BaseInv, StoreInv, [Next]_vars, BaseInv', StoreInv', events' = events
  PROVE  /\ StoredLogs' = StoredLogs
         /\ \A b \in StoredLogs : \A c \in 1..b : chain'[c] = chain[c]
  <1>1. ASSUME NEW b \in StoredLogs
        PROVE  /\ b \in StoredLogs'
               /\ \A c \in 1..b : chain'[c] = chain[c]
    <2>1. b \in Nat /\ b >= 1 /\ Final(b) /\ b \in 1..Len(chain) /\ chain[b].tx \in events
      BY StoredBlock DEF StoredLogs
    <2>2. b \in 1..Len(chain') /\ chain'[b] = chain[b]
      BY <2>1, FinalStays
    <2>3. ASSUME NEW c \in 1..b
          PROVE  chain'[c] = chain[c]
      <3>1. c \in Nat /\ c >= 1 /\ c <= b
        BY <2>1
      <3>2. maxHead \in Nat /\ MaxReorg \in Nat
        BY IndexerBounds DEF BaseInv, TypeOK
      <3>3. Final(c)
        BY <2>1, <3>1, <3>2 DEF Final
      <3> QED
        BY <3>1, <3>3, FinalStays
    <2> QED
      BY <2>1, <2>2, <2>3 DEF StoredLogs
  <1>2. ASSUME NEW b \in StoredLogs'
        PROVE  b \in StoredLogs
    <2>1. b \in 1..Len(chain') /\ chain'[b].tx \in events /\ chain' \in Seq(Log \cup {NoLog})
      BY DEF StoredLogs, BaseInv, TypeOK
    <2>2. PICK d \in 1..Len(chain) : chain[d].tx = chain'[b].tx /\ Final(d)
      BY <2>1 DEF StoreInv, Stored
    <2>3. d \in Nat /\ d >= 1
      BY DEF BaseInv, TypeOK
    <2>4. d \in 1..Len(chain') /\ chain'[d] = chain[d]
      BY <2>2, <2>3, FinalStays
    <2>5. chain'[b].tx # 0
      <3>1. events \subseteq 1..MaxLogs
        BY DEF BaseInv, TypeOK
      <3> QED BY <2>1, <3>1, IndexerBounds
    <2>6. \A x \in 1..Len(chain') : chain'[x] # NoLog =>
            \A y \in 1..(x - 1) : chain'[y].tx < chain'[x].tx
      BY DEF BaseInv, ChainInv, LogStands
    <2>7. b = d
      BY <2>1, <2>2, <2>4, <2>5, <2>6, TxIsBlock
    <2> QED
      BY <2>1, <2>2, <2>7 DEF StoredLogs
  <1> QED
    BY <1>1, <1>2

\* Such a step leaves the order of what is stored as it was ...
LEMMA OrderStays ==
  ASSUME BaseInv, StoreInv, [Next]_vars, BaseInv', StoreInv', events' = events, StoredInOrder
  PROVE  StoredInOrder'
  <1>1. /\ StoredLogs' = StoredLogs
        /\ \A b \in StoredLogs : \A c \in 1..b : chain'[c] = chain[c]
    BY StoredKept
  <1> SUFFICES ASSUME NEW b \in StoredLogs, NEW c \in 1..(b - 1),
                      chain'[c].contract = chain'[b].contract, chain'[c].name \in Handled
               PROVE  chain'[c].tx \in events
    BY <1>1 DEF StoredInOrder
  <1>2. b \in Nat /\ b >= 1
    BY StoredBlock
  <1>3. c \in 1..b /\ b \in 1..b
    BY <1>2
  <1> QED
    BY <1>1, <1>3 DEF StoredInOrder

\* ... and the rows, if no handler begins or ends.
LEMMA RowsStay ==
  ASSUME BaseInv, StoreInv, [Next]_vars, BaseInv', StoreInv', events' = events,
         mirror' = mirror, torn' = {} => torn = {}, MirrorInv,
         pc' = "mirror" => pc = "mirror",
         pc = "mirror" /\ torn' = {} => pc' = "mirror",
         pc = "mirror" /\ pc' = "mirror" => queue' = queue
  PROVE  MirrorInv'
  <1>1. /\ StoredLogs' = StoredLogs
        /\ \A b \in StoredLogs : \A c \in 1..b : chain'[c] = chain[c]
    BY StoredKept
  <1>2. \A b \in StoredLogs : chain'[b] = chain[b]
    <2> SUFFICES ASSUME NEW b \in StoredLogs PROVE chain'[b] = chain[b]
      OBVIOUS
    <2>1. b \in Nat /\ b >= 1
      BY StoredBlock
    <2>2. b \in 1..b
      BY <2>1
    <2> QED
      BY <1>1, <2>2
  <1>3. StoredInOrder'
    BY OrderStays DEF MirrorInv
  <1>4. HeadIsLast'
    BY <1>1, <1>2 DEF HeadIsLast, MirrorInv
  <1>5. ASSUME torn' = {}, NEW i \in Items
        PROVE  RowStands(i)'
    <2>1. RowStands(i)
      BY <1>5 DEF MirrorInv
    <2>2. Applied(i)' = Applied(i)
      BY <1>1, <1>2, <1>5 DEF Applied
    <2>3. \A b \in Applied(i) : chain'[b] = chain[b]
      BY <1>2 DEF Applied
    <2>4. \A b \in Applied(i) : RowFor(chain'[b]) = RowFor(chain[b])
      BY <2>3
    <2> QED
      BY <2>1, <2>2, <2>4 DEF RowStands
  <1> QED
    BY <1>3, <1>4, <1>5 DEF MirrorInv

\* The block of the log at the head of the queue.
LEMMA HeadBlock ==
  ASSUME BaseInv, StoreInv, AtLog, queue # << >>
  PROVE  \E b \in cursor..toBlock :
           /\ Head(queue) = chain[b] /\ b \in 1..Len(chain) /\ b \in Nat /\ b >= 1
           /\ chain[b].contract = contract /\ chain[b] \in Log /\ LogStands(b)
  <1>1. Head(queue) = queue[1] /\ 1 \in 1..Len(queue) /\ Queued /\ ScanInv
    BY DEF BaseInv, TypeOK, StoreInv
  <1>2. PICK b \in cursor..toBlock : queue[1] = chain[b] /\ chain[b].contract = contract
    BY <1>1 DEF Queued
  <1>3. b \in Nat /\ b >= 1 /\ b \in 1..Len(chain)
    BY <1>1, ChunkIsFinal
  <1>4. chain[b] # NoLog
    BY <1>2 DEF NoLog, BaseInv, TypeOK, Contracts
  <1>5. chain[b] \in Log
    BY <1>3, <1>4, ElementOfSeq DEF BaseInv, TypeOK
  <1> QED
    BY <1>1, <1>2, <1>3, <1>4, <1>5 DEF BaseInv, ChainInv

\* persistRawEventOnce stores a log after all earlier ones of its contract, as the
\* queue is in block order and begins where the checkpoint ends.
LEMMA PersistMirrors ==
  ASSUME BaseInv, StoreInv, MirrorInv, persistRawEventOnce
  PROVE  MirrorInv'
  <1>1. /\ UNCHANGED <<chain, queue, mirror, torn>> /\ pc = "log" /\ pc' = "mirror"
        /\ queue # << >> /\ Head(queue).name \in Handled /\ Head(queue).tx \notin events
        /\ events' = events \cup {Head(queue).tx}
    BY DEF persistRawEventOnce, chainVars, IsNew
  <1>2. AtLog
    BY <1>1 DEF AtLog
  <1>3. PICK b \in cursor..toBlock :
          /\ Head(queue) = chain[b] /\ b \in 1..Len(chain) /\ b \in Nat /\ b >= 1
          /\ chain[b].contract = contract /\ chain[b] \in Log /\ LogStands(b)
    BY <1>1, <1>2, HeadBlock
  <1>4. StoredInOrder /\ ScanInv /\ Queued /\ CheckpointCovers
    BY <1>2 DEF MirrorInv, StoreInv
  <1>5. /\ chain \in Seq(Log \cup {NoLog}) /\ contract \in Contracts /\ Len(chain) \in Nat
        /\ checkpoint \in [Contracts -> Nat \cup {Null}] /\ cursor \in Nat /\ toBlock \in Nat
        /\ events \subseteq 1..MaxLogs /\ queue \in Seq(Log)
    BY DEF BaseInv, TypeOK
  <1>6. \A x \in 1..Len(chain) : chain[x] # NoLog => \A y \in 1..(x - 1) : chain[y].tx < chain[x].tx
    BY DEF BaseInv, ChainInv, LogStands
  <1>7. chain[b].tx \in Nat /\ chain[b].tx # 0 /\ chain[b] # NoLog
    BY <1>3, IndexerBounds DEF Log, NoLog
  <1>8. \A d \in StoredLogs' : d = b \/ d \in StoredLogs
    <2> SUFFICES ASSUME NEW d \in StoredLogs', d \notin StoredLogs PROVE d = b
      OBVIOUS
    <2>1. d \in 1..Len(chain) /\ chain[d].tx = chain[b].tx
      BY <1>1, <1>3 DEF StoredLogs
    <2> QED
      BY <1>3, <1>5, <1>6, <1>7, <2>1, TxIsBlock
  <1>9. ASSUME NEW c \in 1..(b - 1), chain[c].contract = contract, chain[c].name \in Handled
        PROVE  chain[c].tx \in events
    <2>1. c \in Nat /\ c >= 1 /\ c < b /\ c \in 1..Len(chain)
      BY <1>3
    <2>2. chain[c] # NoLog
      BY <1>5, <1>9 DEF NoLog, Contracts
    <2>3. chain[c] \in Log
      BY <1>5, <2>1, <2>2, ElementOfSeq
    <2>4. chain[c].tx \in Nat /\ LogStands(c) /\ chain[c].tx < chain[b].tx
      <3>1. chain[c].tx \in Nat
        BY <2>3, IndexerBounds DEF Log
      <3>2. LogStands(c)
        BY <2>1, <2>2 DEF BaseInv, ChainInv
      <3> QED
        BY <1>3, <1>6, <1>7, <3>1, <3>2
    <2>5. CASE c < cursor
      <3>1. cursor = FromBlock(contract) /\ c >= DeployBlock
        BY <1>1, <1>4, <2>4 DEF ScanInv, LogStands
      <3>2. checkpoint[contract] # Null /\ c \in DeployBlock..checkpoint[contract]
        BY <1>5, <2>1, <2>5, <3>1, IndexerBounds DEF FromBlock
      <3> QED
        BY <1>4, <1>5, <1>9, <3>2 DEF CheckpointCovers
    <2>6. CASE c >= cursor
      <3>1. c \in cursor..toBlock
        BY <1>3, <1>5, <2>1, <2>6
      <3>2. chain[c].tx \in events \/ \E j \in 1..Len(queue) : queue[j] = chain[c]
        BY <1>4, <1>9, <3>1 DEF Queued
      <3>3. ASSUME NEW j \in 1..Len(queue), queue[j] = chain[c]
            PROVE  FALSE
        <4>1. Head(queue) = queue[1] /\ 1 \in 1..Len(queue) /\ Len(queue) \in Nat
          BY <1>1, <1>5
        <4>2. queue[1].tx = chain[b].tx
          BY <1>3, <4>1
        <4>3. CASE j = 1
          BY <1>7, <2>4, <3>3, <4>2, <4>3
        <4>4. CASE 1 < j
          <5>1. queue[1].tx < queue[j].tx
            BY <1>4, <4>1, <4>4 DEF Queued
          <5> QED
            BY <1>7, <2>4, <3>3, <4>2, <5>1
        <4> QED
          BY <4>1, <4>3, <4>4
      <3> QED
        BY <3>2, <3>3
    <2> QED
      BY <1>5, <2>1, <2>5, <2>6
  <1>10. StoredInOrder'
    <2> SUFFICES ASSUME NEW d \in StoredLogs', NEW c \in 1..(d - 1),
                        chain[c].contract = chain[d].contract, chain[c].name \in Handled
                 PROVE  chain[c].tx \in events'
      BY <1>1 DEF StoredInOrder
    <2> QED
      BY <1>1, <1>3, <1>4, <1>8, <1>9 DEF StoredInOrder
  <1>11. HeadIsLast'
    <2> SUFFICES ASSUME NEW d \in StoredLogs', chain[d].contract = chain[b].contract
                 PROVE  chain[d].tx <= chain[b].tx
      BY <1>1, <1>3 DEF HeadIsLast
    <2>1. CASE d = b
      BY <1>7, <2>1
    <2>2. CASE d \in StoredLogs
      <3>1. d \in 1..Len(chain) /\ d \in Nat /\ chain[d] \in Log /\ chain[d] # NoLog
        BY <2>2, StoredBlock, IndexerBounds DEF Log, NoLog
      <3>2. chain[d].tx \in Nat
        BY <3>1, IndexerBounds DEF Log
      <3>3. ~(b < d)
        <4> SUFFICES ASSUME b < d PROVE FALSE
          OBVIOUS
        <4>1. b \in 1..(d - 1)
          BY <1>3, <3>1
        <4> QED
          BY <1>1, <1>3, <1>4, <2>2, <4>1 DEF StoredInOrder
      <3>4. CASE d < b
        <4>1. d \in 1..(b - 1)
          BY <1>3, <3>1, <3>4
        <4> QED
          BY <1>3, <1>6, <1>7, <3>2, <4>1
      <3> QED
        BY <1>3, <2>1, <3>1, <3>3, <3>4
    <2> QED
      BY <1>8, <2>1, <2>2
  <1>12. ASSUME torn' = {}, NEW i \in Items
         PROVE  RowStands(i)'
    <2>1. RowStands(i)
      BY <1>1, <1>12 DEF MirrorInv
    <2>2. Applied(i)' = Applied(i)
      <3>1. \A d : d \in Applied(i) <=> d \in StoredLogs /\ chain[d].item = i
        BY <1>1 DEF Applied
      <3>2. \A d : d \in Applied(i)' <=>
                     d \in StoredLogs' /\ chain[d].item = i /\ chain[d].tx # chain[b].tx
        BY <1>1, <1>3 DEF Applied
      <3>3. \A d \in StoredLogs : d \in StoredLogs' /\ chain[d].tx # chain[b].tx
        BY <1>1, <1>3 DEF StoredLogs
      <3>4. \A d : d \in Applied(i) <=> d \in Applied(i)'
        BY <1>8, <3>1, <3>2, <3>3
      <3> QED
        BY <3>4 DEF Applied
    <2> QED
      BY <1>1, <2>1, <2>2 DEF RowStands
  <1> QED
    BY <1>10, <1>11, <1>12 DEF MirrorInv

\* An event that does not open its item has one that does in an earlier block.
LEMMA Opener ==
  ASSUME BaseInv, NEW b \in 1..Len(chain), chain[b] \in Log, LogStands(b),
         chain[b].name \in Handled \ Opens
  PROVE  \E c \in 1..(b - 1) : /\ chain[c].item = chain[b].item /\ chain[c].name \in Handled
                               /\ chain[c].contract = chain[b].contract
  <1>1. b \in Nat /\ b <= Len(chain) /\ Len(chain) \in Nat /\ chain \in Seq(Log \cup {NoLog})
    BY DEF BaseInv, TypeOK
  <1>2. chain[b].item \in Items
    BY DEF Log
  <1> DEFINE S == {c \in 1..(b - 1) : chain[c].item = chain[b].item /\ chain[c].name \notin NoStatus}
  <1>3. S # {} /\ S \in SUBSET Nat
    BY <1>1 DEF LogStands, Untouched, Handled, NoStatus
  <1> HIDE DEF S
  <1>4. PICK c \in S : \A d \in S : c <= d
    BY <1>3, Smallest
  <1>5. /\ c \in 1..(b - 1) /\ chain[c].item = chain[b].item /\ c \in Nat
        /\ chain[c].name \notin NoStatus
    BY <1>1, <1>4 DEF S
  <1>6. c \in 1..Len(chain) /\ c < b
    BY <1>1, <1>5
  <1>7. chain[c] # NoLog
    BY <1>2, <1>5, IndexerItems DEF NoLog, Items
  <1>8. LogStands(c)
    BY <1>6, <1>7 DEF BaseInv, ChainInv
  <1>9. Untouched(chain[c].item, c)
    <2> SUFFICES ASSUME NEW d \in 1..(c - 1), chain[d].item = chain[c].item
                 PROVE  chain[d].name \in NoStatus
      BY DEF Untouched
    <2>1. d \in 1..(b - 1) /\ ~(c <= d)
      BY <1>1, <1>5, <1>6
    <2> QED
      BY <1>4, <1>5, <2>1 DEF S
  <1>10. chain[c].name \in Opens
    BY <1>5, <1>8, <1>9 DEF LogStands
  <1>11. chain[c].contract = chain[b].contract
    BY <1>5, <1>8 DEF LogStands
  <1> QED
    BY <1>5, <1>10, <1>11 DEF Opens, Handled

\* The handler applies its log after all earlier ones of the item, and finds a row
\* exactly if the log does not open the item: the write never fails to take.
LEMMA WriteMirrors ==
  ASSUME BaseInv, StoreInv, MirrorInv, WriteMirror
  PROVE  MirrorInv'
  <1>1. /\ UNCHANGED <<chain, events, torn>> /\ pc = "mirror" /\ pc' # "mirror"
        /\ mirror' = IF Writes(Head(queue)) THEN [mirror EXCEPT ![Head(queue).item] = RowFor(Head(queue))]
                     ELSE mirror
    BY DEF WriteMirror, chainVars
  <1>2. AtLog /\ queue # << >> /\ Head(queue).tx \in events
    BY <1>1 DEF AtLog, BaseInv, TypeOK, StoreInv, UnderWay
  <1>3. PICK b \in cursor..toBlock :
          /\ Head(queue) = chain[b] /\ b \in 1..Len(chain) /\ b \in Nat /\ b >= 1
          /\ chain[b].contract = contract /\ chain[b] \in Log /\ LogStands(b)
    BY <1>2, HeadBlock
  <1>4. b \in StoredLogs
    BY <1>2, <1>3 DEF StoredLogs
  <1>5. chain[b].name \in Handled /\ chain[b].tx \in Nat /\ chain[b].tx # 0 /\ chain[b].item \in Items
    BY <1>3, <1>4, StoredBlock, IndexerBounds DEF Log
  <1>6. /\ chain \in Seq(Log \cup {NoLog}) /\ mirror \in [Items -> RowStatus \cup {Null}]
    BY DEF BaseInv, TypeOK
  <1>7. \A x \in 1..Len(chain) : chain[x] # NoLog => \A y \in 1..(x - 1) : chain[y].tx < chain[x].tx
    BY DEF BaseInv, ChainInv, LogStands
  <1>8. StoredLogs' = StoredLogs
    BY <1>1 DEF StoredLogs
  <1>9. StoredInOrder' /\ HeadIsLast'
    BY <1>1, <1>8 DEF MirrorInv, StoredInOrder, HeadIsLast
  <1>10. \A d \in StoredLogs : chain[d].tx = chain[b].tx => d = b
    BY <1>3, <1>5, <1>6, <1>7, TxIsBlock DEF StoredLogs
  \* Applied before the handler and after it.
  <1>11. \A i \in Items : Applied(i) = {d \in StoredLogs : chain[d].item = i /\ d # b}
    BY <1>1, <1>3, <1>10 DEF Applied
  <1>12. \A i \in Items : Applied(i)' = {d \in StoredLogs : chain[d].item = i}
    BY <1>1, <1>8 DEF Applied
  \* Nothing stored for the item is later than b.
  <1>13. ASSUME NEW d \in StoredLogs, chain[d].item = chain[b].item
         PROVE  d \in Nat /\ d <= b
    <2>1. d \in 1..Len(chain) /\ d \in Nat /\ chain[d] \in Log /\ LogStands(d)
      BY StoredBlock
    <2>2. chain[d].contract = chain[b].contract
      BY <1>3, <1>13, <2>1 DEF LogStands
    <2>3. chain[d].tx <= chain[b].tx /\ chain[d].tx \in Nat
      BY <1>1, <1>3, <2>1, <2>2, IndexerBounds DEF MirrorInv, HeadIsLast, Log
    <2>4. ~(b < d)
      BY <1>3, <1>5, <2>1, <2>3 DEF LogStands
    <2> QED
      BY <1>3, <2>1, <2>4
  <1>14. ASSUME torn = {}
         PROVE  Writes(Head(queue))
    <2>1. RowStands(chain[b].item)
      BY <1>5, <1>14 DEF MirrorInv
    <2>2. CASE chain[b].name \in Opens
      <3>1. Applied(chain[b].item) = {}
        <4> SUFFICES ASSUME NEW d \in StoredLogs, chain[d].item = chain[b].item, d # b
                     PROVE  FALSE
          BY <1>5, <1>11
        <4>1. d \in 1..(b - 1)
          BY <1>3, <1>13, StoredBlock
        <4>2. chain[d].name \in NoStatus
          BY <1>3, <2>2, <4>1 DEF LogStands, Untouched, Opens, NoStatus
        <4>3. chain[d].name \in Handled
          BY StoredBlock
        <4> QED
          BY <4>2, <4>3 DEF Handled, NoStatus
      <3> QED
        BY <1>3, <2>1, <2>2, <3>1 DEF RowStands, Writes, Opens
    <2>3. CASE chain[b].name \notin Opens
      <3>1. PICK c \in 1..(b - 1) :
              /\ chain[c].item = chain[b].item /\ chain[c].name \in Handled
              /\ chain[c].contract = chain[b].contract
        BY <1>3, <1>5, <2>3, Opener
      <3>2. c \in StoredLogs /\ c # b
        BY <1>3, <1>4, <3>1 DEF MirrorInv, StoredInOrder, StoredLogs
      <3>3. c \in Applied(chain[b].item)
        BY <1>5, <1>11, <3>1, <3>2
      <3>4. Applied(chain[b].item) \in SUBSET (1..Len(chain))
        BY <1>5, <1>11 DEF StoredLogs
      <3>5. PICK m \in Applied(chain[b].item) : \A d \in Applied(chain[b].item) : d <= m
        <4>1. PICK A : A = Applied(chain[b].item)
          OBVIOUS
        <4>2. Len(chain) \in Nat
          BY <1>6
        <4> QED
          BY <3>3, <3>4, <4>1, <4>2, LastBlock
      <3>6. mirror[chain[b].item] = RowFor(chain[m])
        BY <2>1, <3>5 DEF RowStands
      <3>7. m \in StoredLogs
        BY <1>5, <1>11, <3>5
      <3>8. chain[m] \in Log /\ chain[m].name \in Handled /\ chain[m].status \in StatusIn(chain[m].name)
        BY <3>7, StoredBlock DEF LogStands
      <3>9. mirror[chain[b].item] # Null
        <4>1. PICK log \in Log : log = chain[m]
          BY <3>8
        <4>2. RowFor(log) # Null
          BY RowIsStatus, IndexerItems
        <4> QED
          BY <3>6, <4>1, <4>2
      <3> QED
        BY <1>3, <2>3, <3>9 DEF Writes, Opens
    <2> QED
      BY <2>2, <2>3
  <1>15. ASSUME torn = {}, NEW i \in Items
         PROVE  RowStands(i)'
    <2>1. mirror'[i] = IF i = chain[b].item THEN RowFor(chain[b]) ELSE mirror[i]
      BY <1>1, <1>3, <1>5, <1>6, <1>14, <1>15
    <2>2. CASE i = chain[b].item
      <3>1. b \in Applied(i)' /\ \A d \in Applied(i)' : d \in Nat /\ d <= b
        BY <1>4, <1>12, <1>13, <2>2
      <3>2. \A d \in Applied(i)' : (\A c \in Applied(i)' : c <= d) => d = b
        BY <1>3, <3>1
      <3> QED
        BY <1>1, <2>1, <2>2, <3>1, <3>2 DEF RowStands
    <2>3. CASE i # chain[b].item
      <3>1. Applied(i)' = Applied(i)
        BY <1>11, <1>12, <2>3
      <3>2. RowStands(i)
        BY <1>15 DEF MirrorInv
      <3> QED
        BY <1>1, <2>1, <2>3, <3>1, <3>2 DEF RowStands
    <2> QED
      BY <2>2, <2>3
  <1> QED
    BY <1>1, <1>9, <1>15 DEF MirrorInv

\* Every step keeps the invariant.
LEMMA MirrorNext ==
  BaseInv /\ BaseInv' /\ StoreInv /\ StoreInv' /\ MirrorInv /\ [Next]_vars => MirrorInv'
  <1> SUFFICES ASSUME BaseInv, BaseInv', StoreInv, StoreInv', MirrorInv, [Next]_vars
               PROVE  MirrorInv'
    OBVIOUS
  <1>1. CASE ChainStep
    <2>1. UNCHANGED <<pc, queue, events, mirror, torn>>
      BY <1>1 DEF ChainStep, MineEmpty, MineLog, Mine, Reorg
    <2> QED
      BY <2>1, RowsStay
  <1>2. CASE StartScan \/ FetchChunk \/ SkipLog \/ EndChunk \/ AbortLog \/ \E ok \in BOOLEAN : Report(ok)
    <2>1. UNCHANGED <<events, mirror, torn>> /\ pc # "mirror" /\ pc' # "mirror"
      BY <1>2 DEF StartScan, FetchChunk, SkipLog, EndChunk, AbortLog, Report, AbandonPass,
                  NextContract
    <2> QED
      BY <2>1, RowsStay
  <1>3. CASE Fail
    <2>1. /\ UNCHANGED <<events, mirror>> /\ pc' # "mirror"
          /\ torn' = IF pc = "mirror" THEN torn \cup {Head(queue).tx} ELSE torn
      BY <1>3 DEF Fail, AbandonPass
    <2>2. (torn' = {} => torn = {}) /\ (pc = "mirror" => torn' # {})
      BY <2>1
    <2> QED
      BY <2>1, <2>2, RowsStay
  <1>4. CASE UNCHANGED vars
    BY <1>4, RowsStay DEF vars
  <1> QED
    BY <1>1, <1>2, <1>3, <1>4, PersistMirrors, WriteMirrors DEF Next, IndexerStep

\* What a handler writes is the indexer's name for the status its log gives.
LEMMA NamesAgree ==
  ASSUME NEW log, log.name \in Handled, log.status \in StatusIn(log.name),
         log.contract = IF log.name \in ClaimEvents THEN "claims" ELSE "policy"
  PROVE  RowFor(log) = IndexerName(IF log.contract = "claims"
                                   THEN ClaimStatusEnum[log.status + 1] ELSE log.name)
  <1>1. /\ \A i \in 1..5 : ClaimStatusEnum[i] # Null
        /\ \A e \in Handled : e # Null
    BY IndexerItems DEF Events
  <1>2. CASE log.name = "PolicyRegistered" \/ log.name = "PolicyRevoked"
    BY <1>1, <1>2 DEF RowFor, IndexerName, ClaimEvents, Handled
  <1>3. CASE log.name = "ClaimSubmitted" \/ log.name = "ClaimPayout"
    BY <1>1, <1>3 DEF RowFor, IndexerName, ClaimEvents, StatusIn, ClaimStatusEnum
  <1>4. CASE log.name = "ClaimStatusChanged"
    BY <1>1, <1>4 DEF RowFor, IndexerName, ClaimEvents, StatusIn, ClaimStatusEnum,
                      CLAIM_STATUS_NAMES
  <1> QED
    BY <1>2, <1>3, <1>4 DEF Handled

\* The indexer's tables follow the chain: unless a handler died between the insert
\* into onchain_events and its own write, every row shows what the last stored log of
\* its claim or policy says.
THEOREM MirrorStaysFaithful ==
  ASSUME MaxReorg <= ReorgSafety
  PROVE  Spec => []MirrorFollowsLog
  <1>1. BaseInv /\ StoreInv /\ MirrorInv => MirrorFollowsLog
    <2> SUFFICES ASSUME BaseInv, StoreInv, MirrorInv, torn = {}, pc # "mirror", NEW i \in Items
                 PROVE  mirror[i] = IndexerName(StatusAfter(StoredLogs, i))
      BY DEF MirrorFollowsLog
    <2> DEFINE own == {b \in StoredLogs : chain[b].item = i /\ chain[b].name \notin NoStatus}
    <2>1. \A b \in StoredLogs : chain[b].name \notin NoStatus
      BY StoredBlock DEF Handled, NoStatus
    <2>2. own = Applied(i)
      BY <2>1 DEF Applied
    <2>3. RowStands(i)
      BY DEF MirrorInv
    <2>4. CASE own = {}
      <3>1. StatusAfter(StoredLogs, i) = Null
        BY <2>4 DEF StatusAfter
      <3>2. mirror[i] = Null
        BY <2>2, <2>3, <2>4 DEF RowStands
      <3> QED
        BY <3>1, <3>2, IndexerItems DEF IndexerName, Events, Handled, ClaimStatusEnum
    <2>5. CASE own # {}
      <3>1. own \in SUBSET (1..Len(chain)) /\ Len(chain) \in Nat
        BY DEF StoredLogs, BaseInv, TypeOK
      <3>2. StatusAfter(StoredLogs, i) =
              IF chain[Max(own)].contract = "claims"
              THEN ClaimStatusEnum[chain[Max(own)].status + 1] ELSE chain[Max(own)].name
        BY <2>5 DEF StatusAfter
      <3>3. own \subseteq StoredLogs
        OBVIOUS
      <3> HIDE DEF own
      <3>4. PICK m : m = Max(own)
        OBVIOUS
      <3>5. m \in own /\ \A d \in own : d <= m
        BY <2>5, <3>1, <3>4, LastBlock
      <3>6. mirror[i] = RowFor(chain[m])
        BY <2>2, <2>3, <3>5 DEF RowStands
      <3>7. m \in 1..Len(chain) /\ chain[m] \in Log /\ chain[m].name \in Handled /\ LogStands(m)
        BY <3>3, <3>5, StoredBlock
      <3>8. PICK log : log = chain[m]
        OBVIOUS
      <3>9. RowFor(log) = IndexerName(IF log.contract = "claims"
                                      THEN ClaimStatusEnum[log.status + 1] ELSE log.name)
        BY <3>7, <3>8, NamesAgree DEF LogStands
      <3> QED
        BY <3>2, <3>4, <3>6, <3>8, <3>9
    <2> QED
      BY <2>4, <2>5
  <1> QED
    BY <1>1, BaseInit, BaseNext, StoreInit, StoreNext, MirrorInit, MirrorNext, PTL DEF Spec
=============================================================================
