--------------------------- MODULE OracleAdapter ----------------------------
(***************************************************************************)
(* OracleAdapter.sol in front of the ClaimRegistry it relays to.           *)
(*                                                                         *)
(* A signed response is a record whose signer is the address ECDSA.recover *)
(* yields for it; anyone may submit any response any number of times, so   *)
(* replays, late relays and responses of revoked signers are all ordinary  *)
(* inputs of submitVerification.  The adapter holds ORACLE_ROLE on the     *)
(* registry and nobody else does: the registry's verdicts come through     *)
(* here.  The adapter can be pointed at another sink, whose answer is      *)
(* unknown: it accepts or it reverts the relay.                            *)
(***************************************************************************)
EXTENDS ClaimRegistry

CONSTANTS Keys,            \* addresses a signature can recover to
          ValidityWindows, \* arguments of setResponseValidityWindow
          ThisRegistry,    \* the sink that is the modelled registry
          OtherSink        \* some other address

VARIABLES
  adapterPaused,
  claimRegistry,           \* where submitVerification relays to
  responseValidityWindow,
  usedRequestIds,          \* set of request ids the adapter has consumed
  signers,                 \* holders of ORACLE_SIGNER_ROLE
  relayedElsewhere         \* history: ids decided at the other sink

adapterVars == <<adapterPaused, claimRegistry, responseValidityWindow,
                 usedRequestIds, signers, relayedElsewhere>>
allVars == <<vars, adapterVars>>

OracleResponse == [claimId : ClaimIds, requestId : RequestIds,
                   approved : BOOLEAN, timestamp : StartTime..(MaxTime + 1),
                   signer : Keys]

\* The types of the adapter's own variables; those of the registry are
\* ClaimRegistry's TypeOK.
AdapterTypeOK ==
  /\ adapterPaused \in BOOLEAN
  /\ claimRegistry \in {ThisRegistry, OtherSink}
  /\ responseValidityWindow \in ValidityWindows
  /\ usedRequestIds \subseteq RequestIds
  /\ signers \subseteq Keys
  /\ relayedElsewhere \subseteq RequestIds

AdapterInit ==
  /\ Init
  /\ adapterPaused = FALSE
  /\ claimRegistry = ThisRegistry
  /\ responseValidityWindow \in ValidityWindows
  /\ usedRequestIds = {}
  /\ signers = {}
  /\ relayedElsewhere = {}
-----------------------------------------------------------------------------
\* A mutated form: only the registry's layer refuses a replay.
UnusedUnchecked(r) == TRUE

Unused(r) == r \notin usedRequestIds

\* Neither from the future nor expired.
Fresh(response) ==
  /\ response.timestamp <= now
  /\ now <= response.timestamp + responseValidityWindow

\* A mutated form: a registry that refuses the verdict does not undo the relay.
RelaySwallowingRevert(response) ==
  \/ recordOracleVerification(response.claimId, response.requestId,
                              response.approved)
  \/ UNCHANGED vars

\* The external call: its revert undoes the relay, so it is a guard.
Relay(response) ==
  recordOracleVerification(response.claimId, response.requestId,
                           response.approved)

submitVerification(response) ==
  /\ ~adapterPaused
  /\ Unused(response.requestId)
  /\ Fresh(response)
  /\ response.signer \in signers
  /\ usedRequestIds' = usedRequestIds \cup {response.requestId}
  /\ IF claimRegistry = ThisRegistry
     THEN Relay(response) /\ UNCHANGED relayedElsewhere
     ELSE /\ relayedElsewhere' = relayedElsewhere \cup {response.requestId}
          /\ UNCHANGED vars
  /\ UNCHANGED <<adapterPaused, claimRegistry, responseValidityWindow, signers>>
-----------------------------------------------------------------------------
(* Administration of the adapter *)

setClaimRegistry(sink) ==
  /\ claimRegistry' = sink
  /\ UNCHANGED <<vars, adapterPaused, responseValidityWindow,
                 usedRequestIds, signers, relayedElsewhere>>

setResponseValidityWindow(window) ==
  /\ responseValidityWindow' = window
  /\ UNCHANGED <<vars, adapterPaused, claimRegistry, usedRequestIds,
                 signers, relayedElsewhere>>

setAdapterPaused(b) ==
  /\ adapterPaused # b /\ adapterPaused' = b
  /\ UNCHANGED <<vars, claimRegistry, responseValidityWindow,
                 usedRequestIds, signers, relayedElsewhere>>

\* AccessControl: the timelock grants and revokes ORACLE_SIGNER_ROLE.
setSigner(key, granted) ==
  /\ signers' = IF granted THEN signers \cup {key} ELSE signers \ {key}
  /\ UNCHANGED <<vars, adapterPaused, claimRegistry,
                 responseValidityWindow, usedRequestIds, relayedElsewhere>>

\* The registry's own operations, verdicts excepted.
RegistryStep ==
  /\ \/ \E a \in Accounts, p \in PolicyIds, n \in Amounts :
          submitClaim(a, p, n)
     \/ \E c \in ClaimIds, s \in ClaimStatus : setClaimStatus(c, s)
     \/ \E c \in ClaimIds : payoutClaim(c)
     \/ \E c \in ClaimIds : releaseStuckPayout(c)
     \/ pause
     \/ unpause
     \/ \E l \in LimitSettings : updateRateLimits(l)
     \/ \E r \in Registries \cup {ZeroAddress} : setPolicyRegistry(r)
     \/ \E t \in Tokens, n \in Transfers : rescueForeignToken(t, n)
     \/ \E t \in Tokens, n \in Transfers : Deposit(t, n)
     \/ PolicyStep
     \/ Tick
  /\ UNCHANGED adapterVars

AdapterNext ==
  \/ \E response \in OracleResponse : submitVerification(response)
  \/ \E sink \in {ThisRegistry, OtherSink} : setClaimRegistry(sink)
  \/ \E w \in ValidityWindows : setResponseValidityWindow(w)
  \/ \E b \in BOOLEAN : setAdapterPaused(b)
  \/ \E k \in Keys, b \in BOOLEAN : setSigner(k, b)
  \/ RegistryStep

AdapterSpec == AdapterInit /\ [][AdapterNext]_allVars
-----------------------------------------------------------------------------
(* Properties *)

\* No response is burnt: an id the adapter has consumed has decided a claim,
\* here or at the sink the adapter was pointed at.  A relay that the registry
\* refuses (paused, no such claim) leaves the id usable.
UsedMeansDecided ==
  usedRequestIds = usedOracleRequestIds \cup relayedElsewhere

\* The two layers of replay protection never disagree: an id that decided a
\* claim in the registry is refused by the adapter too, across any switching
\* of the sink, so one signed response decides at most one claim.
DecidesOneClaim ==
  /\ usedOracleRequestIds \cap relayedElsewhere = {}
  /\ \A r \in RequestIds : verdicts[r] <= 1
=============================================================================
