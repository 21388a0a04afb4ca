------------------------------- MODULE SafeOps -------------------------------
(***************************************************************************)
(* safe-ops: the scripts that create the underwriter Safe, give it its     *)
(* role and then move claims and owners through it.                        *)
(*                                                                         *)
(* Several operators run scripts at once.  A script reads its .env once,   *)
(* reads the chain at every await, and may die at any of them; what it     *)
(* prints goes into the .env by hand.  The Safe contract, protocol-kit and *)
(* the RPC endpoint are external.  signAndExecute hands protocol-kit the   *)
(* endpoint and an address, so signatures come from the endpoint, for the  *)
(* accounts it holds; for any other address the run fails.                 *)
(*                                                                         *)
(* One Safe is created and one claim is decided.                           *)
(***************************************************************************)
EXTENDS KmsSigner, Functions

CONSTANTS Operators,
          Configured,       \* the lists OWNER_KMS_KEY_IDS may hold
          Thresholds,       \* the values SAFE_THRESHOLD and arguments may hold
          Accounts,         \* addresses the RPC endpoint can sign for
          MaxNonce          \* bound: Safe transactions executed

VARIABLES env,        \* the .env file
          printed,    \* what scripts have printed for the .env
          safe,       \* the Safe: <<>> until created
          granted,    \* the Safe holds UNDERWRITER_ROLE
          claim,      \* status of the claim
          run         \* the script each operator runs

vars == <<env, printed, safe, granted, claim, run>>

NotGiven == 0                       \* an optional threshold left out
Infrastructure == 3                 \* singleton, proxy factory, handler
Statuses == {"Submitted", "UnderReview", "Approved", "Paid", "Rejected"}
Scripts == {"deploy", "create", "grant", "propose", "add", "remove"}
Arguments == [action : {"none", "approve", "reject", "payout"},
              key : Keys, threshold : Thresholds \cup {NotGiven}]
NoArgument == [action |-> "none", key |-> CHOOSE k \in Keys : TRUE,
               threshold |-> NotGiven]
NoCall == [kind |-> "none", owner |-> <<>>, threshold |-> NotGiven]

ASSUME OpsBounds ==
  /\ Thresholds \subseteq Nat \ {0} /\ MaxNonce \in Nat
  /\ Configured \subseteq Seq(Keys) \ {<<>>} /\ Configured # {}
  /\ Thresholds # {} /\ Keys # {}

NewConfig == [infra |-> FALSE, safe |-> FALSE,
              keys |-> CHOOSE ks \in Configured : TRUE,
              threshold |-> CHOOSE t \in Thresholds : TRUE]

Idle == [script |-> "none", pc |-> "idle", config |-> NewConfig,
         arg |-> NoArgument, owners |-> {}, threshold |-> NotGiven,
         call |-> NoCall, nonce |-> 0, need |-> 0, i |-> 0, sigs |-> {}]

Init ==
  /\ env \in [infra : {FALSE}, safe : {FALSE}, keys : Configured,
              threshold : Thresholds]
  /\ printed = {} /\ safe = <<>> /\ granted = FALSE
  /\ claim = "UnderReview"
  /\ run = [o \in Operators |-> Idle]
-----------------------------------------------------------------------------
(* The .env file *)

\* The operator pastes what a script printed, or changes the owners' keys.
EditEnv ==
  /\ \/ \E ks \in Configured \ {env.keys} : env' = [env EXCEPT !.keys = ks]
     \/ "infra" \in printed /\ ~env.infra /\ env' = [env EXCEPT !.infra = TRUE]
     \/ "safe" \in printed /\ ~env.safe /\ env' = [env EXCEPT !.safe = TRUE]
  /\ UNCHANGED <<printed, safe, granted, claim, run>>

\* The command lines of a script.
commandLine(script) ==
  CASE script = "propose" ->
         {[NoArgument EXCEPT !.action = a] : a \in {"approve", "reject", "payout"}}
    [] script \in {"add", "remove"} -> {a \in Arguments : a.action = "none"}
    [] OTHER -> {NoArgument}

\* What loadConfig and the script's first lines insist on.
configured(script) ==
  CASE script = "deploy" -> TRUE
    [] script = "create" -> env.infra
    [] OTHER             -> env.safe

\* A script starts: it takes its arguments and loads its configuration.
loadConfig(o, script, arg) ==
  /\ run[o].pc = "idle"
  /\ configured(script)
  /\ run' = [run EXCEPT ![o] =
               [Idle EXCEPT !.script = script, !.pc = script, !.config = env,
                            !.arg = arg]]
  /\ UNCHANGED <<env, printed, safe, granted, claim>>

\* An await fails, a check throws, or the process is stopped.
Fail(o) ==
  /\ run[o].pc # "idle"
  /\ run' = [run EXCEPT ![o] = Idle]
  /\ UNCHANGED <<env, printed, safe, granted, claim>>
-----------------------------------------------------------------------------
(* 01, 02 and 03 *)

\* 01: the next contract is deployed; after the last the addresses are printed.
deployFromArtifact(o) ==
  /\ run[o].pc = "deploy"
  /\ run' = [run EXCEPT ![o] = IF run[o].i + 1 < Infrastructure
                               THEN [run[o] EXCEPT !.i = run[o].i + 1]
                               ELSE Idle]
  /\ printed' = IF run[o].i + 1 < Infrastructure THEN printed
                ELSE printed \cup {"infra"}
  /\ UNCHANGED <<env, safe, granted, claim>>

\* The Safe contract's setup: it refuses duplicate owners.
setupSafe(owners, threshold) ==
  /\ safe = <<>> /\ IsInjective(owners)
  /\ threshold \in 1..Len(owners)
  /\ safe' = <<[owners |-> Range(owners), threshold |-> threshold,
                nonce |-> 0]>>

\* 02: one owner per configured key.  The transaction is mined; the address is
\* printed if the wait for its receipt succeeds.
createSafe(o) ==
  LET config == run[o].config
      owners == [j \in DOMAIN config.keys |-> getAddress(config.keys[j])]
  IN  /\ run[o].pc = "create"
      /\ Thrown \notin Range(owners)
      /\ config.threshold <= Len(owners)
      /\ setupSafe(owners, config.threshold)
      /\ printed' \in {printed, printed \cup {"safe"}}
      /\ run' = [run EXCEPT ![o] = Idle]
      /\ UNCHANGED <<env, granted, claim>>

\* 03: nothing to do when the role is already granted.
grantRole(o) ==
  /\ run[o].pc = "grant"
  /\ granted' = TRUE
  /\ run' = [run EXCEPT ![o] = Idle]
  /\ UNCHANGED <<env, printed, safe, claim>>
-----------------------------------------------------------------------------
(* 04, 05 and 06: a Safe transaction is built *)

Current == safe[1]

\* The transaction has its call; protocol-kit goes on to read the nonce.
createTransaction(o, call) ==
  /\ run' = [run EXCEPT ![o] = [@ EXCEPT !.pc = "nonce", !.call = call,
                                         !.owners = {}, !.threshold = NotGiven]]
  /\ UNCHANGED <<env, printed, safe, granted, claim>>

\* protocol-kit gives a new transaction the Safe's nonce.
getNonce(o) ==
  /\ run[o].pc = "nonce"
  /\ run' = [run EXCEPT ![o] = [@ EXCEPT !.pc = "quorum", !.nonce = Current.nonce]]
  /\ UNCHANGED <<env, printed, safe, granted, claim>>

buildCalldata(action) ==
  [NoCall EXCEPT !.kind = CASE action = "approve" -> "Approved"
                            [] action = "reject"  -> "Rejected"
                            [] OTHER              -> "Paid"]

propose(o) ==
  /\ run[o].pc = "propose"
  /\ createTransaction(o, buildCalldata(run[o].arg.action))

\* A mutated form: the key's id is taken for its address.
newOwnerId(o) == run[o].arg.key

newOwner(o) == getAddress(run[o].arg.key)

\* 05: protocol-kit reads the owners and refuses one of them as the new owner.
addOwner(o) ==
  /\ run[o].pc = "add"
  /\ newOwner(o) \notin Current.owners \cup {Thrown}
  /\ run' = [run EXCEPT ![o] = [@ EXCEPT !.pc = "check", !.owners = Current.owners]]
  /\ UNCHANGED <<env, printed, safe, granted, claim>>

\* It reads the threshold if none is given, and checks it against those owners.
checkThreshold(o) ==
  LET threshold == IF run[o].arg.threshold = NotGiven THEN Current.threshold
                   ELSE run[o].arg.threshold
  IN  /\ run[o].pc = "check"
      /\ threshold <= Cardinality(run[o].owners) + 1
      /\ createTransaction(o, [kind |-> "add", owner |-> newOwner(o),
                               threshold |-> threshold])

\* 06: the address on the command line is that of some employee's key.
departing(o) == Point[run[o].arg.key]

getOwners(o) ==
  /\ run[o].pc = "remove"
  /\ departing(o) \in Current.owners
  /\ run' = [run EXCEPT ![o] = [@ EXCEPT !.pc = "threshold",
                                         !.owners = Current.owners]]
  /\ UNCHANGED <<env, printed, safe, granted, claim>>

newThreshold(o) == IF run[o].arg.threshold = NotGiven
                   THEN Current.threshold ELSE run[o].arg.threshold

getThreshold(o) ==
  /\ run[o].pc = "threshold"
  /\ newThreshold(o) <= Cardinality(run[o].owners) - 1
  /\ run' = [run EXCEPT ![o] = [@ EXCEPT !.pc = "build", !.owners = {},
                                         !.threshold = newThreshold(o)]]
  /\ UNCHANGED <<env, printed, safe, granted, claim>>

\* protocol-kit reads the owners again for its own checks.
removeOwner(o) ==
  /\ run[o].pc = "build"
  /\ departing(o) \in Current.owners
  /\ run[o].threshold <= Cardinality(Current.owners) - 1
  /\ createTransaction(o, [kind |-> "remove", owner |-> departing(o),
                           threshold |-> run[o].threshold])
-----------------------------------------------------------------------------
(* signAndExecute *)

\* A mutated form: the quorum is taken from the .env.
quorumEnv(o) == run[o].config.threshold

quorum(o) == Current.threshold

readQuorum(o) ==
  /\ run[o].pc = "quorum"
  /\ run' = [run EXCEPT ![o] = [@ EXCEPT !.pc = "sign", !.need = quorum(o)]]
  /\ UNCHANGED <<env, printed, safe, granted, claim>>

\* The i-th configured key's address signs; protocol-kit throws unless it is an
\* owner's, and the endpoint unless it holds the account.
signTransactionBy(o) ==
  LET address == getAddress(run[o].config.keys[run[o].i + 1])
  IN  /\ run[o].pc = "sign" /\ run[o].i < run[o].need
      /\ run[o].i < Len(run[o].config.keys)
      /\ address \in Current.owners \cap Accounts
      /\ run' = [run EXCEPT ![o] = [@ EXCEPT !.i = run[o].i + 1,
                                             !.sigs = run[o].sigs \cup {address}]]
      /\ UNCHANGED <<env, printed, safe, granted, claim>>

\* The Safe contract: the nonce is current and a quorum of owners has signed.
quorumAccepted(o) ==
  /\ run[o].nonce = Current.nonce
  /\ Cardinality(run[o].sigs \cap Current.owners) >= Current.threshold

\* The Safe contract's changes to itself, with its own checks of owners and
\* threshold (GS201, GS204, GS205), and the ClaimRegistry's to the claim.
execTransaction(call) ==
  LET owners == CASE call.kind = "add"    -> Current.owners \cup {call.owner}
                  [] call.kind = "remove" -> Current.owners \ {call.owner}
                  [] OTHER                -> Current.owners
      threshold == IF call.kind \in {"add", "remove"} THEN call.threshold
                   ELSE Current.threshold
  IN  /\ threshold \in 1..Cardinality(owners)
      /\ call.kind = "add" => call.owner \notin Current.owners
      /\ call.kind = "remove" => call.owner \in Current.owners
      /\ safe' = <<[owners |-> owners, threshold |-> threshold,
                    nonce |-> Current.nonce + 1]>>
      /\ claim' = IF call.kind \in Statuses THEN call.kind ELSE claim
      /\ call.kind \in Statuses => granted
      /\ call.kind = "Paid" => claim = "Approved"

\* The endpoint sends the transaction for the first key's address.  Whatever is
\* refused falls to Fail.
executeTransaction(o) ==
  /\ run[o].pc = "sign" /\ run[o].i = run[o].need
  /\ Current.nonce < MaxNonce
  /\ quorumAccepted(o)
  /\ getAddress(run[o].config.keys[1]) \in Accounts
  /\ execTransaction(run[o].call)
  /\ run' = [run EXCEPT ![o] = Idle]
  /\ UNCHANGED <<env, printed, granted>>
-----------------------------------------------------------------------------
Next ==
  \/ EditEnv
  \/ \E o \in Operators :
       \/ \E script \in Scripts : \E arg \in commandLine(script) :
            loadConfig(o, script, arg)
       \/ Fail(o)
       \/ deployFromArtifact(o) \/ createSafe(o) \/ grantRole(o)
       \/ propose(o) \/ addOwner(o) \/ checkThreshold(o)
       \/ getOwners(o) \/ getThreshold(o) \/ removeOwner(o) \/ getNonce(o)
       \/ readQuorum(o) \/ signTransactionBy(o) \/ executeTransaction(o)

Spec == Init /\ [][Next]_vars
-----------------------------------------------------------------------------
Addresses == [1..2 * Width -> 0..(Base - 1)]
Configs == [infra : BOOLEAN, safe : BOOLEAN, keys : Configured,
            threshold : Thresholds]
Calls == {[NoCall EXCEPT !.kind = kind] : kind \in {"none"} \cup Statuses}
           \cup [kind : {"add", "remove"}, owner : Addresses,
                 threshold : Thresholds]
Safes == [owners : SUBSET Addresses, threshold : Thresholds, nonce : Nat]
Runs == [script : Scripts \cup {"none"},
         pc : Scripts \cup {"idle", "check", "threshold", "build", "nonce",
                            "quorum", "sign"},
         config : Configs, arg : Arguments,
         owners : SUBSET Addresses, threshold : Thresholds \cup {NotGiven},
         call : Calls, nonce : Nat, need : Nat, i : Nat,
         sigs : SUBSET Addresses]

\* Every variable keeps its type: a change of owners always carries a threshold,
\* and every owner and signer is a full address.
TypeOK ==
  /\ env \in Configs
  /\ printed \subseteq {"infra", "safe"}
  /\ safe = <<>> \/ (Len(safe) = 1 /\ safe[1] \in Safes)
  /\ granted \in BOOLEAN
  /\ claim \in Statuses
  /\ run \in [Operators -> Runs]

\* The underwriters never lock themselves out: whatever the scripts do, in
\* whatever order, the Safe can be operated by the employees' KMS keys.  Its
\* owners are addresses those keys sign for, and there are enough of them.
NoLockout ==
  safe # <<>> =>
    /\ Current.owners \subseteq {Point[k] : k \in Keys}
    /\ Current.threshold \in 1..Cardinality(Current.owners)

\* Whatever KMS signs with, a configured key's signature is one the chain accepts,
\* from each of KmsSigner's three methods: a recovery id is always found
\* (kmsSigner.js:133 calls the other case unreachable), for either parity and for
\* short and sign-padded values of r and s; s is in the lower half of the order
\* (EIP-2); and the signature recovers to the signer's own address.
SignaturesAreCanonical == Range(env.keys) \subseteq Canonical

\* A run that has collected its signatures is not refused for them: if its
\* transaction is still the next one, and the configured keys differ, owners
\* of now have signed, at least as many as the threshold of now.  The run took
\* nonce, threshold and owners at different moments.
SignaturesSuffice ==
  \A o \in Operators :
    (/\ run[o].pc = "sign" /\ run[o].i = run[o].need
     /\ run[o].nonce = Current.nonce /\ IsInjective(run[o].config.keys))
      => quorumAccepted(o)
=============================================================================
