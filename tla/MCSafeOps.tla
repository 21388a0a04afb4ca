------------------------------ MODULE MCSafeOps ------------------------------
(* Three employees' keys and two operators.  Bytes are digits below 8, so two *)
(* of them hold the numbers below 64 and the order is 61.  The endpoint signs *)
(* for the employees' accounts: with fewer accounts there are fewer steps.    *)
EXTENDS SafeOps

CONSTANTS k1, k2, k3

MCPoint == (k1 :> <<0, 7, 4, 1>>) @@ (k2 :> <<4, 0, 0, 2>>) @@ (k3 :> <<3, 3, 0, 0>>)

MCAccounts == {MCPoint[k] : k \in Keys}

MCConfigured == {<<k1, k2>>, <<k3, k2>>, <<k1, k1>>}

\* Bound: the setup is done once, with threshold 1, and before the Safe is used;
\* a list that names a key twice is only met before the Safe exists; a claim is
\* approved or paid.
SetupOnce ==
  /\ env.threshold = 1
  /\ safe # <<>> => IsInjective(env.keys)
  /\ \A o \in Operators :
       /\ run[o].script = "deploy" => ~env.infra
       /\ run[o].script = "create" => safe = <<>>
       /\ run[o].script = "grant" => ~granted
       /\ run[o].script \in {"propose", "add", "remove"} => granted
       /\ run[o].arg.action # "reject"

Alike == Permutations(Operators)
=============================================================================
